---- MODULE Spec2Model ----
(***************************************************************************)
(* State-machine model of the packet DMA ring engine of the MediaTek       *)
(* ethernet driver (drivers/net/ethernet/mediatek/mtk_eth_soc.c):          *)
(* transmit ring (QDMA and PDMA backends), receive ring, DMA hang          *)
(* detector and reset orchestrator.                                        *)
(*                                                                         *)
(* Specifications:                                                         *)
(*   Spec      QDMA transmit ring: packets, device completion, reclaim     *)
(*   SpecXdp   QDMA transmit ring: XDP frames, device completion, reclaim  *)
(*   SpecPdma  PDMA transmit ring: packets and device completion           *)
(*   SpecRx    receive ring polling                                        *)
(*   SpecHang  periodic hang detector                                      *)
(*   SpecReset reset orchestrator with device open/stop and submissions    *)
(*   SpecSubmit  submissions alone (packets, XDP frames), no completion    *)
(*   SpecShared  either backend, packets of the devices sharing the ring   *)
(*   SpecFresh   bring-up: reclaim before the first submission             *)
(*   SpecRxXdp   receive polling with XDP_TX frames and transmit reclaim   *)
(*   SpecLock    submissions of two contexts under eth->page_lock          *)
(*   SpecXmit    batches of frames given to mtk_xdp_xmit                   *)
(*   SpecNapi    interrupt handlers, NAPI poll tasks and netpoll           *)
(*   SpecOrder   descriptor writes, write barriers and doorbell writes     *)
(*   SpecEscalate  hang checks, the reset work and its MTK_RESETTING flag  *)
(*   SpecChain   descriptor chains of one submission on an empty ring      *)
(*   SpecFlush   receive polls with an XDP program and the deferred flush  *)
(*   SpecLro     receive polls over the rings of hardware LRO              *)
(*   SpecBql     transmit polls and the queue completion accounting        *)
(*   SpecHalves  submissions on the PDMA ring and its two-buffer descriptors *)
(*   SpecCodec   the transmit descriptor encoders of the three generations *)
(*   SpecUnwind  frames checked before and walked under page_lock         *)
(*   SpecWake    queue stop and wake between mtk_start_xmit and the poll   *)
(*   SpecTeardown  the reset work with the wait loop of mtk_stop_dma       *)
(*   SpecRxReset receive polls while the reset work sets MTK_RESETTING     *)
(***************************************************************************)
EXTENDS Integers, Sequences, FiniteSets, TLC

\* ------------------------------------------------------------------ bounds
RingSize == 6        \* transmit ring depth (MTK_QDMA_RING_SIZE / soc->tx.dma_size, scaled)
DmaMaxLen == 1       \* soc->tx.dma_max_len, scaled
MaxFrags == 1        \* most scatter-gather fragments of a packet
MaxFragSize == 2     \* largest fragment size
MaxBudget == 1       \* largest NAPI budget handed to a poll
NumDevs == 2         \* logical network devices sharing the rings (MTK_MAX_DEVS, scaled)
NumTxDevs == 1       \* devices that transmit while the ring is explored
RxRingSize == 3      \* receive ring depth (soc->rx.dma_size, scaled)
NumBufs == 4         \* receive buffers the allocator can have outstanding
RxBudget == 2        \* NAPI budget handed to a receive poll
MaxNapiFrames == 3   \* transmit descriptors used in a run of SpecNapi
MaxOrderSlots == 3   \* transmit descriptors used between two ring set-ups in SpecOrder
MaxChainFrags == 3   \* most fragments of a packet in SpecChain
MaxSplitLen == 4     \* largest dma_max_len a fragment is split by in SpecChain
NumLroRings == 3     \* receive rings polled with hardware LRO (MTK_MAX_RX_RING_NUM, scaled)
LroRingSize == 3     \* depth of each of them
LroBudget == 3       \* NAPI budget of a receive poll in SpecLro
BqlBudget == 3       \* NAPI budget of a transmit poll in SpecBql
NumTxQueues == 2     \* transmit queues of a device in SpecBql (dev->num_tx_queues, scaled)
MaxBqlSlots == 4     \* submissions of SpecBql start below this slot
MaxBqlXdp == 2       \* and those of XDP frames below this one
Thresh == 1          \* ring->thresh (MAX_SKB_FRAGS, scaled)

Slots == 0 .. (RingSize - 1)
Devs == 0 .. (NumDevs - 1)
TxDevs == 0 .. (NumTxDevs - 1)
FragSeqs == UNION {[1 .. n -> 1 .. MaxFragSize] : n \in 0 .. MaxFrags}
Skbs == [headlen : {1}, frags : FragSeqs, gso : BOOLEAN]
XdpFragSeqs == UNION {[1 .. n -> {1}] : n \in 0 .. MaxFrags}
\* page: the page-pool buffer an XDP_TX frame sits in, -1 for a frame handed to
\* ndo_xdp_xmit
XdpFrames == [len : {1}, frags : XdpFragSeqs, page : {-1}]

VARIABLES
  \* transmit ring
  qdma,            \* MTK_HAS_CAPS(soc->caps, MTK_QDMA)
  txd,             \* ring->dma: [own, ls0, plen] per slot (txd3); txd2 is the fixed next pointer
  dma_pdma,        \* ring->dma_pdma: [plen0, plen1, ls0, ls1, ddone] per slot (txd2)
  tx_buf,          \* ring->buf: [data, flags, type, mac_id, len0, len1] per slot
  next_free, last_free, last_free_ptr, cpu_idx, free_count,
  ctx_ptr, drx_ptr,            \* QDMA CTX/DRX pointer registers
  tx_ctx_idx0, tx_dtx_idx0,    \* MT7628_TX_CTX_IDX0 / MT7628_TX_DTX_IDX0
  queue_stopped,   \* netif_queue_stopped(eth->netdev[d])
  ptx,             \* mtk_poll_tx in progress: [pc, cpu, dma, budget, total]
  xs,              \* mtk_xdp_submit_frame between its checks and the lock: [pc, dev, xdpf, dma_map]
  live,            \* ghost: DMA mappings that are mapped and not yet unmapped, <<slot, half>>
  ghost,           \* ghost: what the last step did wrong, [leaked, bad_unmap, freed_inflight]
  ev,              \* ghost: what the last submission did and returned
  \* receive ring
  page_pool,       \* ring->page_pool != NULL (mtk_page_pool_enabled)
  dma36,           \* MTK_HAS_CAPS(soc->caps, MTK_36BIT_DMA)
  rx_data,         \* ring->data: the buffer each slot holds
  rxd,             \* ring->dma: [done, lo, hi] per slot (RX_DMA_DONE, rxd1, ADDR64 of rxd2)
  calc_idx,        \* ring->calc_idx
  crx_idx,         \* the ring's CPU index register (crx_idx_reg)
  rx_drx,          \* the slot the device fills next
  buf_owner,       \* ghost: who holds each receive buffer: "free" (the allocator),
                   \*   "ring", "out" (the stack or a redirect target), "txring"
  rx_mapped,       \* ghost: buffers with a live streaming DMA mapping
  rp,              \* mtk_poll_rx in progress: [pc, done, budget, dma_addr, addr64]
  rev,             \* ghost: what the last receive step did
  \* hang detector
  wdma_hang_count, qdma_hang_count, adma_hang_count,   \* eth->reset.*_hang_count
  reset_wdidx,     \* eth->reset.wdidx
  pending_queued,  \* work_pending(&eth->pending_work)
  hist,            \* ghost: per check made, the signatures whose condition held and the result
  \* reset orchestrator and device bring-up
  resetting,       \* test_bit(MTK_RESETTING, &eth->state)
  netif_up,        \* netif_running(eth->netdev[d])
  phy_attached,    \* phylink_of_phy_connect done and not yet phylink_disconnect_phy
  dma_refcnt,      \* eth->dma_refcnt
  dma_up,          \* the rings are allocated and the DMA engines started
  pw,              \* mtk_pending_work in progress: [pc, i, restart]
  rg,              \* ghost: what the running mtk_pending_work has done so far
  \* submission lock
  page_lock,       \* eth->page_lock: the contexts inside spin_lock .. spin_unlock
  sub,             \* per context, a submission in progress: [pc, kind, itxd]
  \* interrupts and the two poll tasks
  tx_irq_mask,     \* MTK_TX_DONE_INT in the tx_irq_mask register (set: enabled)
  tx_irq_status,   \* MTK_TX_DONE_INT in the tx_irq_status register (set: pending)
  napi_tx,         \* eth->tx_napi: [sched, missed, list, pc, budget, total]
  rx_irq_mask,     \* rx.irq_done_mask in the pdma.irq_mask register
  rx_irq_status,   \* rx.irq_done_mask in the pdma.irq_status register
  napi_rx,         \* eth->rx_napi
  traffic,         \* environment: the direction that carries traffic in this run
  nev,             \* ghost: the last interrupt or poll-task step: [op, ret]
  \* ordering of descriptor writes against the doorbell registers
  mo,              \* ghost: [tx_pend, rx_pend, handed, exposed], see NoMo
  \* the splitting of one fragment taken by itself
  split,           \* [max_len, size, chunks]: a fragment and the descriptor lengths it gets
  \* one call of mtk_poll_rx seen as a whole
  fl,              \* [xdp_flush, runs, stats, flushes]: the local xdp_flush and, ghost, the
                   \*   calls of mtk_xdp_run, the counter increments and the calls of
                   \*   xdp_do_flush since the entry of the running or last call
  \* the receive rings of hardware LRO (eth->hwlro)
  lro,             \* [calc_idx, crx_idx, drx, calc_idx_update per ring; pc, done of the
                   \*   poll; ghost: polled, writes of the running or last call]
  \* queue completion accounting of mtk_poll_tx
  codec,           \* [pc, gen, caps36, mac, dsa, info, desc]: a descriptor being encoded
  xm,              \* [pc, dev]: a mtk_start_xmit between its test of free_count and
                   \*   netif_tx_stop_all_queues
  sd,              \* [pc, i, left]: mtk_stop_dma inside mtk_stop: polls made of the
                   \*   engine waited for, engines left; ghost gave_up
  bql              \* [txq, done, bytes]: struct mtk_poll_state; skbq: queue mapping and
                   \*   length of the skb held by a slot; ghost: calls of
                   \*   netdev_tx_completed_queue and skbs released in the running or
                   \*   last call

\* The lock and the submissions taken step by step; the handlers modelled as
\* one step take and release the lock within it.
lockVars == <<page_lock, sub>>

napiVars == <<tx_irq_mask, tx_irq_status, napi_tx, rx_irq_mask, rx_irq_status, napi_rx,
              traffic, nev>>

\* What the handlers of the rings, the detector and the orchestrator leave
\* alone unless a specification follows it.
auxVars == <<mo, split, fl, lro, bql, codec, xm, sd>>

\* The same without the ordering ghost.
auxButMo == <<split, fl, lro, bql, codec, xm, sd>>
auxButFl == <<mo, split, lro, bql, codec, xm, sd>>
auxButLro == <<mo, split, fl, bql, codec, xm, sd>>
auxButBql == <<mo, split, fl, lro, codec, xm, sd>>
auxButCodec == <<mo, split, fl, lro, bql, xm, sd>>
auxButXm == <<mo, split, fl, lro, bql, codec, sd>>
auxButSd == <<mo, split, fl, lro, bql, codec, xm>>

txVars == <<qdma, txd, dma_pdma, tx_buf, next_free, last_free, last_free_ptr, cpu_idx,
            free_count, ctx_ptr, drx_ptr, tx_ctx_idx0, tx_dtx_idx0, queue_stopped,
            ptx, xs, lockVars, live, ghost, ev>>

rxVars == <<page_pool, dma36, rx_data, rxd, calc_idx, crx_idx, rx_drx, buf_owner,
            rx_mapped, rp, rev>>

hangVars == <<wdma_hang_count, qdma_hang_count, adma_hang_count, reset_wdidx,
              pending_queued, hist>>

devVars == <<netif_up, phy_attached, dma_refcnt, dma_up>>

pwVars == <<pw, rg>>

resetVars == <<resetting, hangVars, devVars, pwVars>>

vars == <<txVars, rxVars, resetVars, napiVars, auxVars>>

\* ------------------------------------------------------------------ helpers
\* txd->txd2 = next_ptr, followed with mtk_qdma_phys_to_virt; NEXT_DESP_IDX
NextSlot(s) == (s + 1) % RingSize

\* memset(tx_buf, 0, sizeof(*tx_buf)); MTK_TYPE_SKB is 0.  data is the kind of
\* pointer held, page the page-pool buffer of the frame it points to (-1: none).
ZeroBuf == [data |-> "NULL", flags |-> {}, type |-> "SKB", mac_id |-> 0,
            len0 |-> 0, len1 |-> 0, page |-> -1]

\* txd3 = TX_DMA_LS0 | TX_DMA_OWNER_CPU
DescDef == [own |-> TRUE, ls0 |-> TRUE, plen |-> 0]

\* TX_DMA_DESP2_DEF = TX_DMA_LS0 | TX_DMA_DONE
Desp2Def == [plen0 |-> 0, plen1 |-> 0, ls0 |-> TRUE, ls1 |-> FALSE, ddone |-> TRUE]

Min(a, b) == IF a < b THEN a ELSE b

\* DIV_ROUND_UP
DivRoundUp(a, b) == (a + b - 1) \div b

\* ghost record of a submission: operation, return value, descriptors taken
\* and asked for, whether the chain failed part way and was unwound, and what
\* became of the packet
NoEv == [op |-> "none", ret |-> "none", taken |-> 0, req |-> 0, fail |-> FALSE,
         unwound |-> FALSE, skb |-> "none"]
NoGhost == [leaked |-> FALSE, bad_unmap |-> FALSE, freed_inflight |-> FALSE]
PtxIdle == [pc |-> "idle", cpu |-> 0, dma |-> 0, budget |-> 0, total |-> 0]
\* A poll task: sched and missed are NAPI_STATE_SCHED and NAPI_STATE_MISSED,
\* list the number of times it is queued on the softirq's poll list, pc whether
\* its poll function is running, budget and total the poll function's locals.
NapiIdle == [sched |-> FALSE, missed |-> FALSE, list |-> 0, pc |-> "idle", budget |-> 0,
             total |-> 0]
NoNev == [op |-> "none", ret |-> 0]

\* Memory ordering ghost: tx_pend and rx_pend are the transmit and receive
\* descriptors written since the last write barrier, exposed the descriptors a
\* doorbell write of the last step handed to the device while still in there.
NoMo == [tx_pend |-> {}, rx_pend |-> {}, handed |-> {}, exposed |-> {}]

NoSplit == [max_len |-> 0, size |-> 0, chunks |-> <<>>]

NoFl == [xdp_flush |-> FALSE, runs |-> 0,
         stats |-> [c \in {"rx_xdp_pass", "rx_xdp_drop", "rx_xdp_redirect", "rx_xdp_tx",
                           "rx_xdp_tx_errors"} |-> 0],
         flushes |-> 0]

\* The rings as mtk_rx_alloc leaves each: calc_idx and the CPU index register at
\* the last slot, the device at slot 0, no ring marked.
LroRings == 0 .. (NumLroRings - 1)
LroInit == [calc_idx |-> [r \in LroRings |-> LroRingSize - 1],
            crx_idx |-> [r \in LroRings |-> LroRingSize - 1],
            drx |-> [r \in LroRings |-> 0],
            calc_idx_update |-> [r \in LroRings |-> FALSE],
            pc |-> "idle", done |-> 0,
            polled |-> {}, writes |-> [r \in LroRings |-> 0]]

\* struct mtk_poll_state state = {} and no skb on the ring; a transmit queue is
\* the pair of its device and its queue index.
NoTxq == <<-1, -1>>
NoBql == [txq |-> NoTxq, done |-> 0, bytes |-> 0,
          skbq |-> [s \in 0 .. (RingSize - 1) |-> [q |-> 0, len |-> 0]],
          calls |-> <<>>, rel |-> <<>>]

\* No descriptor is being encoded.
NoCodec == [pc |-> "idle"]

\* No mtk_start_xmit is between its test and its stop.
NoXm == [pc |-> "idle", dev |-> 0]

\* mtk_stop_dma is not running.
NoSd == [pc |-> "idle", i |-> 0, left |-> 0, gave_up |-> FALSE]

AuxInit ==
  /\ mo = NoMo
  /\ split = NoSplit
  /\ fl = NoFl
  /\ lro = LroInit
  /\ bql = NoBql
  /\ codec = NoCodec
  /\ xm = NoXm
  /\ sd = NoSd

\* As mtk_open leaves them: napi_enable, mtk_tx_irq_enable, mtk_rx_irq_enable.
NapiInit(t) ==
  /\ tx_irq_mask = TRUE
  /\ tx_irq_status = FALSE
  /\ napi_tx = NapiIdle
  /\ rx_irq_mask = TRUE
  /\ rx_irq_status = FALSE
  /\ napi_rx = NapiIdle
  /\ traffic = t
  /\ nev = NoNev

\* The contexts that can be inside a submission at once: one per device.
Ctxs == 0 .. (NumDevs - 1)
SubIdle == [pc |-> "idle", kind |-> "none", itxd |-> 0]
\* n, tried, nxmit: a batch of mtk_xdp_xmit under way (num_frame, the calls of
\* mtk_xdp_submit_frame made, the frames queued)
XsIdle == [pc |-> "idle", dev |-> 0, xdpf |-> [len |-> 1, frags |-> <<>>, page |-> -1],
           dma_map |-> FALSE, n |-> 0, tried |-> 0, nxmit |-> 0]

\* ------------------------------------------------------------------ mtk_tx_unmap
\* The halves of the slot's buffer record that mtk_tx_unmap unmaps.
tx_unmap_halves(b) ==
  IF qdma
  THEN IF ("SINGLE0" \in b.flags) \/ ("PAGE0" \in b.flags) THEN {0} ELSE {}
  ELSE (IF b.len0 # 0 THEN {0} ELSE {}) \cup (IF b.len1 # 0 THEN {1} ELSE {})

\* Whether mtk_tx_unmap releases a packet or frame object held by the record.
tx_unmap_frees(b) == b.data # "NULL" /\ b.data # "DUMMY"

\* The page-pool buffer mtk_tx_unmap gives back (xdp_return_frame_rx_napi and
\* its siblings on a frame of the driver's own pool), -1 when there is none.
tx_unmap_page(b) == IF tx_unmap_frees(b) /\ b.type # "SKB" THEN b.page ELSE -1

\* mutant: mtk_tx_unmap that forgets tx_buf->data = NULL
tx_unmap_buf_keeps_data(b) == [b EXCEPT !.flags = {}]

\* The record after mtk_tx_unmap: flags = 0, data = NULL, the rest is left.
tx_unmap_buf(b) == [b EXCEPT !.flags = {}, !.data = "NULL", !.page = -1]

\* A walk state st carries the ring while one handler works on it:
\*   d (ring->dma), p (ring->dma_pdma), b (ring->buf), lv (live mappings),
\*   g (ghost flags).  Unmapping slot s in walk state st:
tx_unmap_st(st, s) ==
  LET hs == tx_unmap_halves(st.b[s])
      gone == {<<s, h>> : h \in hs}
  IN [st EXCEPT !.b[s] = tx_unmap_buf(st.b[s]),
                !.lv = st.lv \ gone,
                !.g.bad_unmap = st.g.bad_unmap \/ (gone \ st.lv # {})]

\* dma_map_single / skb_frag_dma_map into half h of slot s: a mapping that
\* replaces a live one of the same field can never be unmapped again.
dma_map_st(st, s, h) ==
  [st EXCEPT !.lv = st.lv \cup {<<s, h>>},
             !.g.leaked = st.g.leaked \/ (<<s, h>> \in st.lv)]

\* ------------------------------------------------------------------ setup_tx_buf
setup_tx_buf(st, s, size, idx) ==
  IF qdma
  THEN [st EXCEPT !.b[s].len0 = size]
  ELSE IF idx % 2 = 1
       THEN [st EXCEPT !.p[s].plen1 = size, !.b[s].len1 = size, !.wr = @ \cup {s}]
       ELSE [st EXCEPT !.b[s].data = "DUMMY",
                       !.p[s] = [plen0 |-> size, plen1 |-> 0, ls0 |-> FALSE,
                                 ls1 |-> FALSE, ddone |-> FALSE],
                       !.b[s].len0 = size,
                       !.wr = @ \cup {s}]

\* mutant: mtk_tx_set_dma_desc that sets TX_DMA_LS0 in every descriptor
mtk_tx_set_dma_desc_always_last(st, s, size, last) ==
  [st EXCEPT !.d[s] = [own |-> FALSE, ls0 |-> TRUE, plen |-> size],
             !.wr = @ \cup {s}]

\* mtk_tx_set_dma_desc: txd3 is rewritten without TX_DMA_OWNER_CPU
mtk_tx_set_dma_desc(st, s, size, last) ==
  [st EXCEPT !.d[s] = [own |-> FALSE, ls0 |-> last, plen |-> size],
             !.wr = @ \cup {s}]

\* The ring as a walk state, with the walk's own locals: cur (txd), n (n_desc),
\* k, maps (DMA mapping calls made so far), err, unwound; wr is the set of
\* slots whose descriptor (ring->dma or ring->dma_pdma) the walk has written.
WalkSt(cur) == [d |-> txd, p |-> dma_pdma, b |-> tx_buf, lv |-> live, g |-> NoGhost,
                cur |-> cur, n |-> 1, k |-> 0, maps |-> 0, err |-> FALSE,
                unwound |-> FALSE, ret |-> "OK", wr |-> {}]

\* ------------------------------------------------------------------ mtk_tx_map
\* The descriptors one fragment is split into: frag_size is consumed in pieces
\* of at most dma_max_len; last marks the final piece of the final fragment.
\* mutant: a fragment put into one descriptor whatever its size
FragChunksOf_unsplit(i, rem, nr, max_len) ==
  <<[i |-> i, size |-> rem, last |-> (i = nr - 1)]>>

\* The inner while loop for fragment i of nr with frag_size rem, on a chip whose
\* soc->tx.dma_max_len is max_len.
RECURSIVE FragChunksOf(_, _, _, _)
FragChunksOf(i, rem, nr, max_len) ==
  IF rem = 0 THEN <<>>
  ELSE LET sz == Min(rem, max_len)
       IN <<[i |-> i, size |-> sz, last |-> (i = nr - 1 /\ rem - sz = 0)]>>
          \o FragChunksOf(i, rem - sz, nr, max_len)

FragChunks(i, rem, nr) == FragChunksOf(i, rem, nr, DmaMaxLen)

RECURSIVE SkbChunksFrom(_, _)
SkbChunksFrom(frags, i) ==
  IF i >= Len(frags) THEN <<>>
  ELSE FragChunks(i, frags[i + 1], Len(frags)) \o SkbChunksFrom(frags, i + 1)

SkbChunks(frags) == SkbChunksFrom(frags, 0)

\* One pass of the inner while loop (one piece c of a fragment) for device d;
\* failAt is the number of the DMA mapping call that fails (0: none).
tx_map_frag(st, c, failAt, d) ==
  LET new_desc == qdma \/ (c.i % 2 = 1)
      cur1 == IF new_desc THEN NextSlot(st.cur) ELSE st.cur
  IN IF new_desc /\ cur1 = last_free
     THEN [st EXCEPT !.cur = cur1, !.err = TRUE]
     ELSE LET st1 == [st EXCEPT !.cur = cur1,
                                !.n = IF new_desc THEN @ + 1 ELSE @,
                                !.maps = @ + 1]
          IN IF st1.maps = failAt
             THEN [st1 EXCEPT !.err = TRUE]
             ELSE LET st2 == mtk_tx_set_dma_desc(st1, cur1, c.size, c.last)
                      base == IF new_desc THEN ZeroBuf ELSE st2.b[cur1]
                      st3 == [st2 EXCEPT !.b[cur1] =
                                [base EXCEPT !.data = "DUMMY",
                                             !.flags = @ \cup {"PAGE0"},
                                             !.mac_id = d]]
                      st4 == dma_map_st(st3, cur1, IF qdma THEN 0 ELSE st.k % 2)
                      st5 == setup_tx_buf(st4, cur1, c.size, st.k)
                  IN [st5 EXCEPT !.k = st.k + 1]

RECURSIVE tx_map_frags(_, _, _, _, _)
tx_map_frags(st, chunks, j, failAt, d) ==
  IF st.err \/ j > Len(chunks) THEN st
  ELSE tx_map_frags(tx_map_frag(st, chunks[j], failAt, d), chunks, j + 1, failAt, d)

\* err_dma: do { unmap itxd; reset its descriptor; itxd = next } while (itxd != txd)
RECURSIVE tx_map_unwind(_, _, _)
tx_map_unwind(st, itxd, stop) ==
  LET st1 == tx_unmap_st(st, itxd)
      st2 == [st1 EXCEPT !.d[itxd] = DescDef,
                         !.p[itxd] = IF qdma THEN @ ELSE Desp2Def,
                         !.wr = @ \cup {itxd},
                         !.g.freed_inflight = @ \/ tx_unmap_frees(st.b[itxd]),
                         !.unwound = TRUE]
  IN IF NextSlot(itxd) # stop THEN tx_map_unwind(st2, NextSlot(itxd), stop) ELSE st2

\* mtk_tx_map up to (not including) the update of next_free and free_count,
\* with itxd the value it read from ring->next_free: the ring as the walk
\* leaves it; err says it returned -ENOMEM.
mtk_tx_map_from(itxd, d, skb, failAt) ==
  LET s0 == [WalkSt(itxd) EXCEPT !.b[itxd] = ZeroBuf, !.maps = 1]
      s1 == mtk_tx_set_dma_desc(s0, itxd, skb.headlen, Len(skb.frags) = 0)
      s2 == [s1 EXCEPT !.b[itxd].flags = @ \cup {"SINGLE0"}, !.b[itxd].mac_id = d]
      s3 == [setup_tx_buf(dma_map_st(s2, itxd, 0), itxd, skb.headlen, 0) EXCEPT !.k = 1]
      s4 == tx_map_frags(s3, SkbChunks(skb.frags), 1, failAt, d)
      s5 == [s4 EXCEPT !.b[itxd].type = "SKB", !.b[itxd].data = "SKB"]
      s6 == IF qdma THEN s5
            ELSE IF s5.k % 2 = 1
                 THEN [s5 EXCEPT !.p[s5.cur].ls0 = TRUE, !.wr = @ \cup {s5.cur}]
                 ELSE [s5 EXCEPT !.p[s5.cur].ls1 = TRUE, !.wr = @ \cup {s5.cur}]
  IN IF itxd = last_free THEN [WalkSt(itxd) EXCEPT !.err = TRUE]
     ELSE IF failAt = 1 THEN [s0 EXCEPT !.err = TRUE]
     ELSE IF s4.err THEN tx_map_unwind(s4, itxd, s4.cur)
     ELSE s6

\* mtk_tx_map called with page_lock held throughout: itxd = ring->next_free
mtk_tx_map(d, skb, failAt) == mtk_tx_map_from(next_free, d, skb, failAt)

\* mtk_cal_txd_req
RECURSIVE GsoFrags(_, _)
GsoFrags(frags, i) ==
  IF i > Len(frags) THEN 0
  ELSE DivRoundUp(frags[i], DmaMaxLen) + GsoFrags(frags, i + 1)

mtk_cal_txd_req(skb) ==
  IF skb.gso THEN 1 + GsoFrags(skb.frags, 1) ELSE 1 + Len(skb.frags)

\* The ring variables take the values the walk state st holds.
StoreRing(st) ==
  /\ txd' = st.d
  /\ dma_pdma' = st.p
  /\ tx_buf' = st.b
  /\ live' = st.lv
  /\ ghost' = st.g

\* ------------------------------------------------------------------ mtk_start_xmit
\* kick: netif_xmit_stopped(txq) || !netdev_xmit_more(); cow_fail: skb_cow_head fails
mtk_start_xmit_ring(d, skb, failAt, kick, cow_fail) ==
  LET tx_num == mtk_cal_txd_req(skb)
      st == mtk_tx_map(d, skb, failAt)
      drop == [op |-> "start_xmit", ret |-> "OK", taken |-> 0, req |-> tx_num,
               fail |-> FALSE, unwound |-> FALSE, skb |-> "freed"]
  IN /\ ~queue_stopped[d]
     /\ IF resetting
        THEN /\ ev' = drop
             /\ ghost' = NoGhost
             /\ UNCHANGED <<txd, dma_pdma, tx_buf, live, next_free, free_count,
                            ctx_ptr, tx_ctx_idx0, queue_stopped>>
        ELSE IF free_count <= tx_num
        THEN /\ queue_stopped' = [queue_stopped EXCEPT ![d] = TRUE]
             /\ ev' = [drop EXCEPT !.ret = "BUSY", !.skb = "kept"]
             /\ ghost' = NoGhost
             /\ UNCHANGED <<txd, dma_pdma, tx_buf, live, next_free, free_count,
                            ctx_ptr, tx_ctx_idx0>>
        ELSE IF skb.gso /\ cow_fail
        THEN /\ ev' = drop
             /\ ghost' = NoGhost
             /\ UNCHANGED <<txd, dma_pdma, tx_buf, live, next_free, free_count,
                            ctx_ptr, tx_ctx_idx0, queue_stopped>>
        ELSE IF st.err
        THEN /\ StoreRing(st)
             /\ ev' = [drop EXCEPT !.unwound = st.unwound, !.fail = TRUE]
             /\ UNCHANGED <<next_free, free_count, ctx_ptr, tx_ctx_idx0, queue_stopped>>
        ELSE /\ StoreRing(st)
             /\ next_free' = NextSlot(st.cur)
             /\ free_count' = free_count - st.n
             /\ IF qdma
                THEN /\ ctx_ptr' = IF kick THEN NextSlot(st.cur) ELSE ctx_ptr
                     /\ UNCHANGED tx_ctx_idx0
                ELSE /\ tx_ctx_idx0' = NextSlot(st.cur)
                     /\ UNCHANGED ctx_ptr
             /\ queue_stopped' = IF free_count' <= Thresh
                                  THEN [queue_stopped EXCEPT ![d] = TRUE]
                                  ELSE queue_stopped
             /\ ev' = [drop EXCEPT !.taken = st.n, !.skb = "queued"]
     /\ UNCHANGED <<qdma, last_free, last_free_ptr, cpu_idx, drx_ptr, tx_dtx_idx0, ptx,
                    xs, lockVars, rxVars, resetVars, napiVars>>

\* The same with the ordering ghost left out of the picture.
mtk_start_xmit(d, skb, failAt, kick, cow_fail) ==
  mtk_start_xmit_ring(d, skb, failAt, kick, cow_fail) /\ UNCHANGED auxVars

\* ------------------------------------------------------------------ mtk_xdp_submit_frame
\* The for (;;) loop from buffer number index (size, last: txd_info) on:
\* mtk_xdp_frame_map, then the step to the next descriptor.
RECURSIVE xdp_submit_loop(_, _, _, _, _, _, _, _)
xdp_submit_loop(st, xdpf, index, size, last, dma_map, failAt, d) ==
  LET cur == st.cur
      m1 == IF dma_map
            THEN [dma_map_st(st, cur, IF qdma THEN 0 ELSE index % 2)
                    EXCEPT !.maps = @ + 1, !.b[cur].flags = @ \cup {"SINGLE0"}]
            ELSE st
      m2 == mtk_tx_set_dma_desc(m1, cur, size, last)
      m3 == [m2 EXCEPT !.b[cur].mac_id = d,
                       !.b[cur].type = IF dma_map THEN "XDP_NDO" ELSE "XDP_TX",
                       !.b[cur].data = "DUMMY"]
      m4 == setup_tx_buf(m3, cur, size, index)
      step == qdma \/ (index % 2 = 1)
      cur1 == NextSlot(cur)
      m5 == IF step
            THEN [m4 EXCEPT !.cur = cur1, !.b[cur1] = ZeroBuf, !.n = @ + 1]
            ELSE m4
  IN IF dma_map /\ st.maps + 1 = failAt
     THEN [st EXCEPT !.maps = @ + 1, !.err = TRUE, !.ret = "ENOMEM"]
     ELSE IF last THEN m4
     ELSE IF step /\ cur1 = last_free THEN [m4 EXCEPT !.cur = cur1, !.err = TRUE]
     ELSE xdp_submit_loop(m5, xdpf, index + 1, xdpf.frags[index + 1],
                          index + 1 = Len(xdpf.frags), dma_map, failAt, d)

\* unmap: while (htxd != txd) { unmap htxd; reset its descriptor; htxd = next }
RECURSIVE xdp_submit_unwind(_, _, _)
xdp_submit_unwind(st, htxd, stop) ==
  IF htxd = stop THEN st
  ELSE LET st1 == tx_unmap_st(st, htxd)
           st2 == [st1 EXCEPT !.d[htxd] = DescDef,
                              !.p[htxd] = IF qdma THEN @ ELSE Desp2Def,
                              !.wr = @ \cup {htxd},
                              !.g.freed_inflight = @ \/ tx_unmap_frees(st.b[htxd]),
                              !.unwound = TRUE]
       IN xdp_submit_unwind(st2, NextSlot(htxd), stop)

\* The part of mtk_xdp_submit_frame under page_lock, up to (not including) the
\* update of next_free and free_count, with htxd the value it read from
\* ring->next_free.
xdp_submit_walk_from(htxd, d, xdpf, dma_map, failAt) ==
  LET s0 == [WalkSt(htxd) EXCEPT !.b[htxd] = ZeroBuf]
      s1 == xdp_submit_loop(s0, xdpf, 0, xdpf.len, Len(xdpf.frags) = 0, dma_map,
                            failAt, d)
      s2 == [s1 EXCEPT !.b[htxd].data = "XDPF", !.b[htxd].page = xdpf.page]
      \* index of the last buffer is the number of fragments
      s3 == IF qdma THEN s2
            ELSE IF Len(xdpf.frags) % 2 = 1
                 THEN [s2 EXCEPT !.p[s2.cur].ls0 = TRUE, !.wr = @ \cup {s2.cur}]
                 ELSE [s2 EXCEPT !.p[s2.cur].ls1 = TRUE, !.wr = @ \cup {s2.cur}]
  IN IF htxd = last_free THEN [WalkSt(htxd) EXCEPT !.err = TRUE, !.ret = "ENOMEM"]
     ELSE IF s1.err THEN xdp_submit_unwind(s1, htxd, s1.cur)
     ELSE s3

xdp_submit_walk(d, xdpf, dma_map, failAt) ==
  xdp_submit_walk_from(next_free, d, xdpf, dma_map, failAt)

xdp_busy_ring_only(nr) == free_count <= 1 + nr

xdp_busy_not_strict(nr) == resetting \/ free_count < 1 + nr

\* The two tests that make mtk_xdp_submit_frame return -EBUSY, for a frame of nr
\* fragments: MTK_RESETTING first, then the free count.
xdp_busy(nr) == resetting \/ free_count <= 1 + nr

\* mtk_xdp_submit_frame, first part: the checks made before page_lock is taken.
xdp_submit_check_ring(d, xdpf, dma_map) ==
  /\ xs.pc = "idle"
  /\ IF xdp_busy(Len(xdpf.frags))
     THEN /\ ev' = [op |-> "xdp_submit", ret |-> "BUSY", taken |-> 0,
                    req |-> 1 + Len(xdpf.frags), fail |-> FALSE, unwound |-> FALSE,
                    skb |-> "kept"]
          /\ UNCHANGED xs
     ELSE /\ xs' = [XsIdle EXCEPT !.pc = "locked", !.dev = d, !.xdpf = xdpf,
                                  !.dma_map = dma_map]
          /\ ev' = NoEv
  /\ ghost' = NoGhost
  /\ UNCHANGED <<qdma, txd, dma_pdma, tx_buf, next_free, last_free, last_free_ptr,
                 cpu_idx, free_count, ctx_ptr, drx_ptr, tx_ctx_idx0, tx_dtx_idx0,
                 queue_stopped, ptx, live, lockVars, rxVars, resetVars, napiVars>>

\* The same with the ordering ghost left out of the picture.
xdp_submit_check(d, xdpf, dma_map) == xdp_submit_check_ring(d, xdpf, dma_map) /\ UNCHANGED auxVars

\* mtk_xdp_submit_frame, second part: spin_lock(&eth->page_lock) to return.
xdp_submit_locked_ring(failAt) ==
  LET st == xdp_submit_walk(xs.dev, xs.xdpf, xs.dma_map, failAt)
      e == [op |-> "xdp_submit", ret |-> st.ret, taken |-> 0,
            req |-> 1 + Len(xs.xdpf.frags), fail |-> st.err, unwound |-> st.unwound,
            skb |-> "kept"]
  IN /\ xs.pc = "locked"
     /\ xs' = XsIdle
     /\ StoreRing(st)
     /\ IF st.err
        THEN /\ ev' = e
             /\ UNCHANGED <<next_free, free_count, ctx_ptr, tx_ctx_idx0>>
        ELSE /\ next_free' = NextSlot(st.cur)
             /\ free_count' = free_count - st.n
             /\ IF qdma
                THEN ctx_ptr' = NextSlot(st.cur) /\ UNCHANGED tx_ctx_idx0
                ELSE tx_ctx_idx0' = NextSlot(st.cur) /\ UNCHANGED ctx_ptr
             /\ ev' = [e EXCEPT !.taken = st.n, !.skb = "queued"]
     /\ UNCHANGED <<qdma, last_free, last_free_ptr, cpu_idx, drx_ptr, tx_dtx_idx0,
                    queue_stopped, ptx, lockVars, rxVars, resetVars, napiVars>>

\* The same with the ordering ghost left out of the picture.
xdp_submit_locked(failAt) == xdp_submit_locked_ring(failAt) /\ UNCHANGED auxVars

\* ------------------------------------------------------------------ the device
\* QDMA hardware: sends the next descriptor the CPU pointer register covers,
\* writes TX_DMA_OWNER_CPU back into its txd3 and moves the DRX pointer on it.
qdma_hw_tx_done_ring ==
  LET s == NextSlot(drx_ptr)
  IN /\ qdma
     /\ s # ctx_ptr
     /\ txd' = [txd EXCEPT ![s].own = TRUE]
     /\ ev' = NoEv
     /\ drx_ptr' = s
     /\ ghost' = NoGhost
     /\ UNCHANGED <<qdma, dma_pdma, tx_buf, next_free, last_free, last_free_ptr, cpu_idx,
                    free_count, ctx_ptr, tx_ctx_idx0, tx_dtx_idx0, queue_stopped, ptx,
                    xs, lockVars, live, rxVars, resetVars>>

\* The same with the interrupt registers left out of the picture.
qdma_hw_tx_done == qdma_hw_tx_done_ring /\ UNCHANGED <<napiVars, auxVars>>

\* PDMA hardware: sends descriptor DTX_IDX0, sets DDONE in it and moves DTX_IDX0 on.
pdma_hw_tx_done_ring ==
  LET s == tx_dtx_idx0
  IN /\ ~qdma
     /\ s # tx_ctx_idx0
     /\ dma_pdma' = [dma_pdma EXCEPT ![s].ddone = TRUE]
     /\ ev' = NoEv
     /\ tx_dtx_idx0' = NextSlot(s)
     /\ ghost' = NoGhost
     /\ UNCHANGED <<qdma, txd, tx_buf, next_free, last_free, last_free_ptr, cpu_idx,
                    free_count, ctx_ptr, drx_ptr, tx_ctx_idx0, queue_stopped, ptx, xs, lockVars,
                    live, rxVars, resetVars, napiVars>>

\* The same with the ordering ghost left out of the picture.
pdma_hw_tx_done == pdma_hw_tx_done_ring /\ UNCHANGED auxVars

\* ------------------------------------------------------------------ mtk_poll_tx
\* Entry of mtk_poll_tx_qdma / mtk_poll_tx_pdma: cpu and dma are read.
poll_tx_begin_ring(budget) ==
  /\ ptx.pc = "idle"
  /\ ptx' = [pc |-> "loop",
             cpu |-> IF qdma THEN last_free_ptr ELSE cpu_idx,
             dma |-> IF qdma THEN drx_ptr ELSE tx_dtx_idx0,
             budget |-> budget, total |-> 0]
  /\ ev' = NoEv
  /\ ghost' = NoGhost
  /\ UNCHANGED <<qdma, txd, dma_pdma, tx_buf, next_free, last_free, last_free_ptr,
                 cpu_idx, free_count, ctx_ptr, drx_ptr, tx_ctx_idx0, tx_dtx_idx0,
                 queue_stopped, xs, lockVars, live, rxVars, resetVars>>

\* mtk_poll_tx called outside the poll task's bookkeeping.
poll_tx_begin(budget) == poll_tx_begin_ring(budget) /\ UNCHANGED <<napiVars, auxVars>>

\* The slot the next pass of the reclaim loop looks at.
poll_tx_slot == IF qdma THEN NextSlot(ptx.cpu) ELSE ptx.cpu

poll_tx_continues_past_dma ==
  /\ ptx.budget # 0
  /\ qdma => txd[poll_tx_slot].own
  /\ tx_buf[poll_tx_slot].data # "NULL"

poll_tx_continues_no_buf_test ==
  /\ ptx.cpu # ptx.dma
  /\ ptx.budget # 0
  /\ qdma => txd[poll_tx_slot].own

\* Whether the reclaim loop makes another full pass (no exit, no break).
poll_tx_continues ==
  /\ ptx.cpu # ptx.dma
  /\ ptx.budget # 0
  /\ qdma => txd[poll_tx_slot].own
  /\ tx_buf[poll_tx_slot].data # "NULL"

\* One pass of the while loop of mtk_poll_tx_qdma / mtk_poll_tx_pdma.
poll_tx_step_ring ==
  LET s == poll_tx_slot
      b == tx_buf[s]
      head == b.data # "DUMMY"
      gone == {<<s, h>> : h \in tx_unmap_halves(b)}
      pg == tx_unmap_page(b)
  IN /\ ptx.pc = "loop"
     /\ poll_tx_continues
     /\ tx_buf' = [tx_buf EXCEPT ![s] = tx_unmap_buf(b)]
     /\ buf_owner' = IF pg = -1 THEN buf_owner ELSE [buf_owner EXCEPT ![pg] = "free"]
     /\ live' = live \ gone
     /\ ghost' = [NoGhost EXCEPT !.bad_unmap = (gone \ live # {})]
     /\ last_free' = s
     /\ free_count' = free_count + 1
     /\ ev' = NoEv
     /\ ptx' = [ptx EXCEPT !.cpu = NextSlot(ptx.cpu),
                           !.budget = IF head THEN @ - 1 ELSE @,
                           !.total = IF head /\ b.type = "SKB" THEN @ + 1 ELSE @]
     /\ UNCHANGED <<qdma, txd, dma_pdma, next_free, last_free_ptr, cpu_idx, ctx_ptr,
                    drx_ptr, tx_ctx_idx0, tx_dtx_idx0, queue_stopped, xs, lockVars, page_pool,
                    dma36, rx_data, rxd, calc_idx, crx_idx, rx_drx, rx_mapped, rp, rev,
                    resetVars, napiVars>>

\* The same with the ordering ghost left out of the picture.
poll_tx_step == poll_tx_step_ring /\ UNCHANGED auxVars

\* mtk_queue_stopped
mtk_queue_stopped == \E d \in Devs : queue_stopped[d]

\* Exit of the loop: the completion pointer is stored, and mtk_poll_tx wakes the
\* queues (mtk_wake_queue) when one is stopped and free_count > thresh.
poll_tx_end_ring ==
  /\ ptx.pc = "loop"
  /\ ~poll_tx_continues
  /\ IF qdma
     THEN last_free_ptr' = ptx.cpu /\ UNCHANGED cpu_idx
     ELSE cpu_idx' = ptx.cpu /\ UNCHANGED last_free_ptr
  /\ queue_stopped' = IF mtk_queue_stopped /\ free_count > Thresh
                       THEN [d \in Devs |-> FALSE]
                       ELSE queue_stopped
  /\ ptx' = PtxIdle
  /\ ev' = NoEv
  /\ ghost' = NoGhost
  /\ UNCHANGED <<qdma, txd, dma_pdma, tx_buf, next_free, last_free, free_count, ctx_ptr,
                 drx_ptr, tx_ctx_idx0, tx_dtx_idx0, xs, lockVars, live, rxVars, resetVars>>

\* The end of mtk_poll_tx alone.
poll_tx_end == poll_tx_end_ring /\ UNCHANGED <<napiVars, auxVars>>

\* ------------------------------------------------------------------ receive ring
RxSlots == 0 .. (RxRingSize - 1)
Bufs == 0 .. (NumBufs - 1)

\* NEXT_DESP_IDX on the receive ring
NextRx(i) == (i + 1) % RxRingSize

\* The bus address of buffer b: the low 32 bits (rxd1) and, with 36-bit
\* addressing only, the upper bits (RX_DMA_PREP_ADDR64); with 36 bits two
\* buffers can have the same low word.
AddrLo(b) == IF dma36 THEN b \div 2 ELSE b
AddrHi(b) == IF dma36 THEN b % 2 ELSE 0

\* The buffer the bus address (lo, hi) belongs to, or -1 for none.
BufAt(lo, hi) ==
  IF \E b \in Bufs : AddrLo(b) = lo /\ AddrHi(b) = hi
  THEN CHOOSE b \in Bufs : AddrLo(b) = lo /\ AddrHi(b) = hi
  ELSE -1

\* DMA_MAPPING_ERROR, (~(dma_addr_t)0): the address no buffer has
DMA_MAPPING_ERROR == -1

RpIdle == [pc |-> "idle", done |-> 0, budget |-> 0, dma_addr |-> DMA_MAPPING_ERROR,
           addr64 |-> 0]
NoRev == [out |-> "none", dropped |-> FALSE, bad_unmap |-> FALSE, bad_dma |-> FALSE,
          disp |-> 0, prog |-> FALSE,
          stats |-> [c \in {"rx_xdp_pass", "rx_xdp_drop", "rx_xdp_redirect", "rx_xdp_tx",
                            "rx_xdp_tx_errors"} |-> 0]]

\* The buffers the allocator can hand out, and the one it hands out.
FreeBufs == {b \in Bufs : buf_owner[b] = "free"}
AllocBuf == CHOOSE b \in FreeBufs : \A c \in FreeBufs : b <= c

\* A pass state r carries what one pass of the loop works on: data (ring->data),
\* own (buffer owners), mp (live mappings), dma_addr and addr64 (the locals),
\* lo (rxd1 of the slot), rev (ghost record).
RxPassSt(idx) == [data |-> rx_data, own |-> buf_owner, mp |-> rx_mapped,
                  dma_addr |-> rp.dma_addr, addr64 |-> rp.addr64, lo |-> rxd[idx].lo,
                  rev |-> NoRev]

\* skip_rx: ring->data[idx] = new_data; rxd->rxd1 = (unsigned int)dma_addr
rx_skip_rx(r, idx, new_data) ==
  [r EXCEPT !.data[idx] = new_data,
            !.lo = IF r.dma_addr = DMA_MAPPING_ERROR THEN -1 ELSE AddrLo(r.dma_addr)]

\* mtk_rx_put_buff / page_pool_put_full_page / skb_free_frag of buffer b
rx_put_buff(r, b) == [r EXCEPT !.own[b] = "free", !.rev.disp = @ + 1]

\* Buffer b is handed to its new holder: the stack (build_skb and
\* napi_gro_receive), the redirect target (xdp_do_redirect), both "out", or
\* the transmit ring (mtk_xdp_submit_frame), "txring".
rx_hand_buff(r, b, to) == [r EXCEPT !.own[b] = to, !.rev.disp = @ + 1]

\* The verdict counters of hw_stats->xdp_stats on the receive side.
XdpCounters == {"rx_xdp_pass", "rx_xdp_drop", "rx_xdp_redirect", "rx_xdp_tx",
                "rx_xdp_tx_errors"}

\* mutant: update_stats that counts a failed retransmit as a drop as well
xdp_update_stats_error_and_drop(r, count) ==
  IF count = "rx_xdp_tx_errors"
  THEN [r EXCEPT !.rev.stats[count] = @ + 1, !.rev.stats["rx_xdp_drop"] = @ + 1]
  ELSE [r EXCEPT !.rev.stats[count] = @ + 1]

\* mutant: update_stats that leaves rx_xdp_drop alone
xdp_update_stats_skips_drop(r, count) ==
  IF count = "rx_xdp_drop" THEN r ELSE [r EXCEPT !.rev.stats[count] = @ + 1]

\* update_stats: *count = *count + 1
xdp_update_stats(r, count) == [r EXCEPT !.rev.stats[count] = @ + 1]

\* mutant: mtk_xdp_run that does not give the page back when the local
\* retransmit fails
mtk_xdp_run_keeps_failed_tx(r, data, act, ok) ==
  LET p == [r EXCEPT !.rev.prog = TRUE]
  IN CASE act = "NOPROG" -> [r EXCEPT !.rev.out = "XDP_PASS"]
       [] act = "XDP_PASS" ->
            xdp_update_stats([p EXCEPT !.rev.out = "XDP_PASS"], "rx_xdp_pass")
       [] act = "XDP_REDIRECT" /\ ok ->
            xdp_update_stats([rx_hand_buff(p, data, "out") EXCEPT !.rev.out = "XDP_REDIRECT"],
                             "rx_xdp_redirect")
       [] act = "XDP_TX" /\ ok ->
            xdp_update_stats([rx_hand_buff(p, data, "txring") EXCEPT !.rev.out = "XDP_TX"],
                             "rx_xdp_tx")
       [] act = "XDP_TX" /\ ~ok ->
            xdp_update_stats([p EXCEPT !.rev.out = "XDP_DROP"], "rx_xdp_tx_errors")
       [] act = "XDP_REDIRECT" ->
            xdp_update_stats([rx_put_buff(p, data) EXCEPT !.rev.out = "XDP_DROP"],
                             "rx_xdp_drop")
       [] OTHER ->
            xdp_update_stats([rx_put_buff(p, data) EXCEPT !.rev.out = act],
                             "rx_xdp_drop")

\* mtk_xdp_run on the old buffer data of a page-pool slot; act is what the
\* program returns ("NOPROG": none attached, goto out), ok whether
\* xdp_do_redirect or the frame conversion and mtk_xdp_submit_frame succeed.
\* count starts as rx_xdp_drop and is set by the branch taken; the branches that
\* break give the page back before update_stats.  The result has the verdict
\* in rev.out, the increments in rev.stats, and rev.prog when a program ran.
\* A failed redirect or retransmit sets act to XDP_DROP; XDP_DROP, XDP_ABORTED
\* and a value that is no verdict leave act as the program returned it.
mtk_xdp_run(r, data, act, ok) ==
  LET p == [r EXCEPT !.rev.prog = TRUE]
  IN CASE act = "NOPROG" -> [r EXCEPT !.rev.out = "XDP_PASS"]
       [] act = "XDP_PASS" ->
            xdp_update_stats([p EXCEPT !.rev.out = "XDP_PASS"], "rx_xdp_pass")
       [] act = "XDP_REDIRECT" /\ ok ->
            xdp_update_stats([rx_hand_buff(p, data, "out") EXCEPT !.rev.out = "XDP_REDIRECT"],
                             "rx_xdp_redirect")
       [] act = "XDP_TX" /\ ok ->
            xdp_update_stats([rx_hand_buff(p, data, "txring") EXCEPT !.rev.out = "XDP_TX"],
                             "rx_xdp_tx")
       [] act = "XDP_TX" /\ ~ok ->
            xdp_update_stats([rx_put_buff(p, data) EXCEPT !.rev.out = "XDP_DROP"],
                             "rx_xdp_tx_errors")
       [] act = "XDP_REDIRECT" ->
            xdp_update_stats([rx_put_buff(p, data) EXCEPT !.rev.out = "XDP_DROP"],
                             "rx_xdp_drop")
       [] OTHER ->
            xdp_update_stats([rx_put_buff(p, data) EXCEPT !.rev.out = act],
                             "rx_xdp_drop")

\* The page-pool branch of one pass, from "alloc new buffer" to skip_rx.
rx_pass_pool(r, idx, alloc_ok, act, ok, build_ok) ==
  LET data == r.data[idx]
      new_data == AllocBuf
      r1 == [r EXCEPT !.own[new_data] = "ring", !.dma_addr = new_data]
      r2 == mtk_xdp_run(r1, data, act, ok)
      r3 == IF r2.rev.out # "XDP_PASS" THEN r2
            ELSE IF build_ok THEN [rx_hand_buff(r2, data, "out") EXCEPT !.rev.out = "deliver"]
            ELSE [rx_put_buff(r2, data) EXCEPT !.rev.out = "build_fail",
                                               !.rev.dropped = TRUE]
  IN IF ~alloc_ok \/ FreeBufs = {}
     THEN [r EXCEPT !.rev.out = "alloc_fail", !.rev.dropped = TRUE]
     ELSE rx_skip_rx(r3, idx, new_data)

\* The other branch: napi_alloc_frag, dma_map_single, dma_unmap_single of the
\* address read from the descriptor, build_skb.
rx_pass_frag(r, idx, alloc_ok, map_ok, build_ok) ==
  LET data == r.data[idx]
      new_data == AllocBuf
      r1 == [r EXCEPT !.own[new_data] = "ring", !.dma_addr = new_data,
                      !.mp = @ \cup {new_data},
                      !.addr64 = IF dma36 THEN rxd[idx].hi ELSE @]
      old == BufAt(rxd[idx].lo, r1.addr64)
      r2 == [r1 EXCEPT !.mp = @ \ {old},
                       !.rev.bad_unmap = (old \notin r1.mp)]
      r3 == IF build_ok THEN [rx_hand_buff(r2, data, "out") EXCEPT !.rev.out = "deliver"]
            ELSE [rx_put_buff(r2, data) EXCEPT !.rev.out = "build_fail",
                                               !.rev.dropped = TRUE]
  IN IF ~alloc_ok \/ FreeBufs = {}
     THEN [r EXCEPT !.rev.out = "alloc_fail", !.rev.dropped = TRUE]
     ELSE IF ~map_ok
     THEN [r EXCEPT !.dma_addr = DMA_MAPPING_ERROR, !.rev.out = "map_fail", !.rev.dropped = TRUE]
     ELSE rx_skip_rx(r3, idx, new_data)

\* One pass of the while loop up to release_desc.
rx_pass(idx, mac_ok, alloc_ok, map_ok, act, ok, build_ok) ==
  LET r == RxPassSt(idx)
  IN IF ~mac_ok THEN [r EXCEPT !.rev.out = "bad_mac"]
     ELSE IF resetting THEN [r EXCEPT !.rev.out = "resetting"]
     ELSE IF page_pool THEN rx_pass_pool(r, idx, alloc_ok, act, ok, build_ok)
     ELSE rx_pass_frag(r, idx, alloc_ok, map_ok, build_ok)

\* The transmit ring variables mtk_xdp_submit_frame can change.
txRingVars == <<txd, dma_pdma, tx_buf, live, next_free, free_count, ctx_ptr, tx_ctx_idx0>>

\* Verdicts a program can return, and none attached.
XdpActs == {"NOPROG", "XDP_PASS", "XDP_DROP", "XDP_TX", "XDP_REDIRECT", "XDP_ABORTED",
            "INVALID"}

\* Entry of mtk_poll_rx: the locals are initialised.
rx_poll_begin_ring(budget) ==
  /\ rp.pc = "idle"
  /\ rp' = [RpIdle EXCEPT !.pc = "loop", !.budget = budget]
  /\ rev' = NoRev
  /\ UNCHANGED <<page_pool, dma36, rx_data, rxd, calc_idx, crx_idx, rx_drx, buf_owner,
                 rx_mapped, txVars, resetVars>>

\* mtk_poll_rx called outside the poll task's bookkeeping.
rx_poll_begin(budget) == rx_poll_begin_ring(budget) /\ UNCHANGED <<napiVars, auxVars>>

\* One pass of the loop from its head to release_desc, for a completed slot.
\* XDP_TX hands the frame (one buffer, no fragments, already mapped) to
\* mtk_xdp_submit_frame of device 0.
rx_poll_pass_ring(mac_ok, alloc_ok, map_ok, act, ok_in, build_ok) ==
  LET idx == NextRx(calc_idx)
      runs_tx == /\ mac_ok /\ ~resetting /\ page_pool /\ alloc_ok /\ FreeBufs # {}
                 /\ act = "XDP_TX" /\ ok_in
      busy == free_count <= 1
      st == xdp_submit_walk(0, [len |-> 1, frags |-> <<>>, page |-> rx_data[idx]], FALSE, 0)
      ok == IF act = "XDP_TX" THEN runs_tx /\ ~busy /\ st.ret = "OK" ELSE ok_in
      r == rx_pass(idx, mac_ok, alloc_ok, map_ok, act, ok, build_ok)
      e == [op |-> "xdp_submit", ret |-> "BUSY", taken |-> 0, req |-> 1,
            fail |-> FALSE, unwound |-> FALSE, skb |-> "kept"]
  IN /\ rp.pc = "loop"
     /\ rp.done < rp.budget
     /\ rxd[idx].done
     /\ rx_data' = r.data
     /\ buf_owner' = r.own
     /\ rx_mapped' = r.mp
     /\ rxd' = [rxd EXCEPT ![idx].lo = r.lo]
     /\ rev' = r.rev
     /\ rp' = [rp EXCEPT !.pc = "release", !.dma_addr = r.dma_addr, !.addr64 = r.addr64]
     /\ IF runs_tx /\ ~busy
        THEN /\ txd' = st.d /\ dma_pdma' = st.p /\ tx_buf' = st.b /\ live' = st.lv
             /\ ghost' = st.g
             /\ IF st.err
                THEN /\ ev' = [e EXCEPT !.ret = st.ret, !.fail = TRUE,
                                        !.unwound = st.unwound]
                     /\ UNCHANGED <<next_free, free_count, ctx_ptr, tx_ctx_idx0>>
                ELSE /\ next_free' = NextSlot(st.cur)
                     /\ free_count' = free_count - st.n
                     /\ ctx_ptr' = NextSlot(st.cur)
                     /\ ev' = [e EXCEPT !.ret = "OK", !.taken = st.n, !.skb = "queued"]
                     /\ UNCHANGED tx_ctx_idx0
        ELSE /\ ev' = IF runs_tx THEN e ELSE NoEv
             /\ ghost' = NoGhost
             /\ UNCHANGED txRingVars
     /\ UNCHANGED <<page_pool, dma36, calc_idx, crx_idx, rx_drx, qdma, last_free,
                    last_free_ptr, cpu_idx, drx_ptr, tx_dtx_idx0, queue_stopped, ptx, xs, lockVars,
                    resetVars, napiVars>>

\* The same with the ordering ghost left out of the picture.
rx_poll_pass(mac_ok, alloc_ok, map_ok, act, ok_in, build_ok) ==
  rx_poll_pass_ring(mac_ok, alloc_ok, map_ok, act, ok_in, build_ok) /\ UNCHANGED auxVars

\* release_desc: the descriptor is rewritten and handed back, calc_idx moves on.
rx_poll_release_ring ==
  LET idx == NextRx(calc_idx)
      addr64 == IF ~dma36 THEN rp.addr64
                ELSE IF rp.dma_addr = DMA_MAPPING_ERROR THEN rxd[idx].hi
                ELSE AddrHi(rp.dma_addr)
  IN /\ rp.pc = "release"
     /\ rxd' = [rxd EXCEPT ![idx].done = FALSE, ![idx].hi = addr64]
     /\ calc_idx' = idx
     /\ rp' = [rp EXCEPT !.pc = "loop", !.done = @ + 1, !.addr64 = addr64]
     /\ rev' = [NoRev EXCEPT !.out = "release"]
     /\ UNCHANGED <<page_pool, dma36, rx_data, crx_idx, rx_drx, buf_owner, rx_mapped,
                    txVars, resetVars, napiVars>>

\* The same with the ordering ghost left out of the picture.
rx_poll_release == rx_poll_release_ring /\ UNCHANGED auxVars

\* Exit of the loop (budget used up, or the next descriptor is not done):
\* mtk_update_rx_cpu_idx when anything was handled.
rx_poll_end_ring ==
  /\ rp.pc = "loop"
  /\ rp.done >= rp.budget \/ ~rxd[NextRx(calc_idx)].done
  /\ crx_idx' = IF rp.done > 0 THEN calc_idx ELSE crx_idx
  /\ rp' = RpIdle
  /\ rev' = NoRev
  /\ UNCHANGED <<page_pool, dma36, rx_data, rxd, calc_idx, rx_drx, buf_owner, rx_mapped,
                 txVars, resetVars>>

\* The end of mtk_poll_rx alone.
rx_poll_end == rx_poll_end_ring /\ UNCHANGED <<napiVars, auxVars>>

\* The device receives a packet into the next slot the CPU index lets it use:
\* it writes to the bus address in the descriptor and sets RX_DMA_DONE.
rx_hw_receive_ring ==
  LET d == rx_drx
      b == BufAt(rxd[d].lo, rxd[d].hi)
  IN /\ d # crx_idx
     /\ ~rxd[d].done
     /\ rxd' = [rxd EXCEPT ![d].done = TRUE]
     /\ rx_drx' = NextRx(d)
     /\ rev' = [NoRev EXCEPT !.out = "hw",
                             !.bad_dma = (b # rx_data[d] \/ b \notin rx_mapped)]
     /\ UNCHANGED <<page_pool, dma36, rx_data, calc_idx, crx_idx, buf_owner, rx_mapped,
                    rp, txVars, resetVars>>

\* The same with the interrupt registers left out of the picture.
rx_hw_receive == rx_hw_receive_ring /\ UNCHANGED <<napiVars, auxVars>>

\* The stack or the redirect target is done with buffer b and releases it.
rx_buf_release_ring(b) ==
  /\ buf_owner[b] = "out"
  /\ buf_owner' = [buf_owner EXCEPT ![b] = "free"]
  /\ rev' = NoRev
  /\ UNCHANGED <<page_pool, dma36, rx_data, rxd, calc_idx, crx_idx, rx_drx, rx_mapped,
                 rp, txVars, resetVars, napiVars>>

\* The same with the ordering ghost left out of the picture.
rx_buf_release(b) == rx_buf_release_ring(b) /\ UNCHANGED auxVars

\* The ring as mtk_rx_alloc leaves it: every slot holds a mapped buffer.
mtk_rx_alloc ==
  /\ rx_data = [i \in RxSlots |-> i]
  /\ rxd = [i \in RxSlots |-> [done |-> FALSE, lo |-> AddrLo(i), hi |-> AddrHi(i)]]
  /\ buf_owner = [b \in Bufs |-> IF b \in RxSlots THEN "ring" ELSE "free"]
  /\ rx_mapped = IF page_pool THEN Bufs ELSE RxSlots
  /\ calc_idx = RxRingSize - 1
  /\ crx_idx = RxRingSize - 1
  /\ rx_drx = 0

RxInit(pool, caps_36bit) ==
  /\ page_pool = pool
  /\ dma36 = caps_36bit
  /\ mtk_rx_alloc
  /\ rp = RpIdle
  /\ rev = NoRev

\* ------------------------------------------------------------------ mtk_tx_alloc
\* mutant: mtk_tx_alloc that reserves one slot only
tx_alloc_free_count_reserves_one(ring_size) == ring_size - 1

\* mtk_tx_alloc: atomic_set(&ring->free_count, ring_size - 2)
tx_alloc_free_count(ring_size) == ring_size - 2

\* The ring as mtk_tx_alloc leaves it.
mtk_tx_alloc ==
  /\ txd = [s \in Slots |-> DescDef]
  /\ dma_pdma = [s \in Slots |-> Desp2Def]
  /\ tx_buf = [s \in Slots |-> ZeroBuf]
  /\ free_count = tx_alloc_free_count(RingSize)
  /\ next_free = 0
  /\ last_free = RingSize - 1
  /\ last_free_ptr = RingSize - 1
  /\ ctx_ptr = 0
  /\ drx_ptr = RingSize - 1
  /\ tx_ctx_idx0 = 0
  /\ tx_dtx_idx0 = 0

\* t: the direction that carries traffic in the run
TxInitT(caps_qdma, t) ==
  /\ qdma = caps_qdma
  /\ mtk_tx_alloc
  /\ cpu_idx = 0
  /\ queue_stopped = [d \in Devs |-> FALSE]
  /\ ptx = PtxIdle
  /\ xs = XsIdle
  /\ page_lock = {}
  /\ sub = [c \in Ctxs |-> SubIdle]
  /\ NapiInit(t)
  /\ AuxInit
  /\ live = {}
  /\ ghost = NoGhost
  /\ ev = NoEv

TxInit(caps_qdma) == TxInitT(caps_qdma, "tx")

\* A step that leaves the transmit ring alone: only the ghost records of the
\* last submission are cleared.
TxQuiet ==
  /\ ev' = NoEv
  /\ ghost' = NoGhost
  /\ UNCHANGED <<qdma, txd, dma_pdma, tx_buf, next_free, last_free, last_free_ptr,
                 cpu_idx, free_count, ctx_ptr, drx_ptr, tx_ctx_idx0, tx_dtx_idx0,
                 queue_stopped, ptx, xs, lockVars, live, napiVars, auxVars>>

\* ------------------------------------------------------------------ mtk_hw_check_dma_hang
\* The three stall signatures and the number of periodic checks a behaviour makes.
Sigs == {"WDMA", "QDMA", "ADMA"}
MaxChecks == 5

hang_count_fires_at_two(c) == c > 1

\* if (++eth->reset.x_hang_count > 2), on the incremented value c
hang_count_fires(c) == c > 2

\* The counter a signature's branch leaves: incremented, or zeroed when it fires.
hang_count_next(c) == IF hang_count_fires(c + 1) THEN 0 ELSE c + 1

\* The signatures whose register condition holds at a check that reads wdidx and
\* finds the other WDMA conditions, the QDMA conditions and the ADMA conditions
\* as given.
SigsHeld(wdidx, wdma_stall, qdma_stall, adma_stall) ==
  (IF wdidx = reset_wdidx /\ wdma_stall THEN {"WDMA"} ELSE {})
    \cup (IF qdma_stall THEN {"QDMA"} ELSE {})
    \cup (IF adma_stall THEN {"ADMA"} ELSE {})

\* mtk_hw_check_dma_hang: the return value and the fields of eth->reset it leaves.
mtk_hw_check_dma_hang(wdidx, wdma_stall, qdma_stall, adma_stall) ==
  LET same == [ret |-> FALSE, wc |-> wdma_hang_count, qc |-> qdma_hang_count,
               ac |-> adma_hang_count, wdidx |-> wdidx]
  IN IF ~qdma
     THEN [same EXCEPT !.wdidx = reset_wdidx]
     ELSE IF wdidx = reset_wdidx /\ wdma_stall
     THEN [same EXCEPT !.ret = hang_count_fires(wdma_hang_count + 1),
                       !.wc = hang_count_next(wdma_hang_count)]
     ELSE IF qdma_stall
     THEN [same EXCEPT !.ret = hang_count_fires(qdma_hang_count + 1),
                       !.qc = hang_count_next(qdma_hang_count)]
     ELSE IF adma_stall
     THEN [same EXCEPT !.ret = hang_count_fires(adma_hang_count + 1),
                       !.ac = hang_count_next(adma_hang_count)]
     ELSE [same EXCEPT !.wc = 0, !.qc = 0, !.ac = 0]

\* mutant: the periodic work without the test of MTK_RESETTING
mtk_hw_reset_monitor_work_ignores_flag(wdidx, wdma_stall, qdma_stall, adma_stall) ==
  LET r == mtk_hw_check_dma_hang(wdidx, wdma_stall, qdma_stall, adma_stall)
  IN /\ Len(hist) < MaxChecks
     /\ wdma_hang_count' = r.wc
     /\ qdma_hang_count' = r.qc
     /\ adma_hang_count' = r.ac
     /\ reset_wdidx' = r.wdidx
     /\ pending_queued' = (pending_queued \/ r.ret)
     /\ hist' = Append(hist,
                  [held |-> SigsHeld(wdidx, wdma_stall, qdma_stall, adma_stall),
                   ret |-> r.ret, sched |-> r.ret])
     /\ TxQuiet
     /\ UNCHANGED <<rxVars, resetting, devVars, pwVars>>

\* mtk_hw_reset_monitor_work: one run of the periodic work.
mtk_hw_reset_monitor_work(wdidx, wdma_stall, qdma_stall, adma_stall) ==
  LET r == mtk_hw_check_dma_hang(wdidx, wdma_stall, qdma_stall, adma_stall)
  IN /\ Len(hist) < MaxChecks
     /\ IF resetting
        THEN UNCHANGED hangVars
        ELSE /\ wdma_hang_count' = r.wc
             /\ qdma_hang_count' = r.qc
             /\ adma_hang_count' = r.ac
             /\ reset_wdidx' = r.wdidx
             /\ pending_queued' = (pending_queued \/ r.ret)
             /\ hist' = Append(hist,
                          [held |-> SigsHeld(wdidx, wdma_stall, qdma_stall, adma_stall),
                           ret |-> r.ret, sched |-> r.ret])
     /\ TxQuiet
     /\ UNCHANGED <<rxVars, resetting, devVars, pwVars>>

\* mtk_tx_timeout: the watchdog's request for a reset; check is mtk_hw_reset_check
mtk_tx_timeout(d, check) ==
  /\ netif_up[d]
  /\ pending_queued' = (pending_queued \/ (~resetting /\ check))
  /\ TxQuiet
  /\ UNCHANGED <<rxVars, resetting, wdma_hang_count, qdma_hang_count,
                 adma_hang_count, reset_wdidx, hist, devVars, pwVars>>

\* ------------------------------------------------------------------ mtk_open, mtk_stop
REFCOUNT_SATURATED == 0 - 2^30

\* the references a behaviour lets failed opens leave behind
MaxRefcnt == 3

refcount_inc(r) == IF r <= 0 THEN REFCOUNT_SATURATED ELSE r + 1

\* refcount_dec_and_test: the value left and whether this was the last reference
refcount_dec_and_test(r) ==
  IF r = 1 THEN [val |-> 0, last |-> TRUE]
  ELSE IF r <= 0 THEN [val |-> REFCOUNT_SATURATED, last |-> FALSE]
  ELSE [val |-> r - 1, last |-> FALSE]

\* The state mtk_open and mtk_stop work on; ring says the rings were freed or
\* allocated anew, err is the return value.
DevSt == [up |-> netif_up, phy |-> phy_attached, ref |-> dma_refcnt, dma |-> dma_up,
          qs |-> queue_stopped, ring |-> FALSE, err |-> FALSE]

OpenOuts == {"ok", "phy_fail", "dma_fail", "meta_fail"}

\* mtk_open; out names the call that fails, if one does
mtk_open(ds, d, out) ==
  IF out = "phy_fail"
  THEN [ds EXCEPT !.err = TRUE]
  ELSE LET s1 == [ds EXCEPT !.phy[d] = TRUE]
           s2 == IF s1.ref = 0
                 THEN [s1 EXCEPT !.ref = 1, !.dma = TRUE, !.ring = TRUE]
                 ELSE [s1 EXCEPT !.ref = refcount_inc(s1.ref)]
       IN IF s1.ref = 0 /\ out = "dma_fail"
          THEN [s1 EXCEPT !.phy[d] = FALSE, !.dma = FALSE, !.ring = TRUE, !.err = TRUE]
          ELSE [s2 EXCEPT !.qs[d] = FALSE, !.err = (out = "meta_fail")]

mtk_stop(ds, d) ==
  LET s1 == [ds EXCEPT !.qs[d] = TRUE, !.phy[d] = FALSE, !.err = FALSE]
      r == refcount_dec_and_test(ds.ref)
  IN IF ~r.last
     THEN [s1 EXCEPT !.ref = r.val]
     ELSE [s1 EXCEPT !.ref = r.val, !.dma = FALSE, !.ring = TRUE]

\* dev_close: a device that is up is marked down and its ndo_stop is called
dev_close(ds, d) ==
  IF ds.up[d] THEN mtk_stop([ds EXCEPT !.up[d] = FALSE], d) ELSE ds

\* dev_open: ndo_open is called and the device is up when it succeeds
dev_open(ds, d, out) ==
  LET s == mtk_open(ds, d, out)
  IN [s EXCEPT !.up[d] = ~s.err]

\* mtk_dma_free and mtk_dma_init: the rings are empty afterwards
mtk_dma_init ==
  /\ txd' = [s \in Slots |-> DescDef]
  /\ dma_pdma' = [s \in Slots |-> Desp2Def]
  /\ tx_buf' = [s \in Slots |-> ZeroBuf]
  /\ free_count' = tx_alloc_free_count(RingSize)
  /\ next_free' = 0
  /\ last_free' = RingSize - 1
  /\ last_free_ptr' = RingSize - 1
  /\ ctx_ptr' = 0
  /\ drx_ptr' = RingSize - 1
  /\ tx_ctx_idx0' = 0
  /\ tx_dtx_idx0' = 0
  /\ cpu_idx' = 0
  /\ live' = {}
  /\ rx_data' = [i \in RxSlots |-> i]
  /\ rxd' = [i \in RxSlots |-> [done |-> FALSE, lo |-> AddrLo(i), hi |-> AddrHi(i)]]
  /\ buf_owner' = [b \in Bufs |-> IF b \in RxSlots THEN "ring" ELSE "free"]
  /\ rx_mapped' = IF page_pool THEN Bufs ELSE RxSlots
  /\ calc_idx' = RxRingSize - 1
  /\ crx_idx' = RxRingSize - 1
  /\ rx_drx' = 0

StoreDev_ring(ds) ==
  /\ netif_up' = ds.up
  /\ phy_attached' = ds.phy
  /\ dma_refcnt' = ds.ref
  /\ dma_up' = ds.dma
  /\ queue_stopped' = ds.qs
  /\ IF ds.ring
     THEN mtk_dma_init
     ELSE UNCHANGED <<txd, dma_pdma, tx_buf, free_count, next_free, last_free,
                      last_free_ptr, ctx_ptr, drx_ptr, tx_ctx_idx0, tx_dtx_idx0,
                      cpu_idx, live, rx_data, rxd, buf_owner, rx_mapped, calc_idx,
                      crx_idx, rx_drx>>
  /\ ev' = NoEv
  /\ ghost' = NoGhost
  /\ UNCHANGED <<qdma, ptx, xs, lockVars, page_pool, dma36, rp, rev, napiVars>>

\* The same with the ghosts of the other specifications left out of the picture.
StoreDev(ds) == StoreDev_ring(ds) /\ UNCHANGED auxVars

\* ndo_open and ndo_stop asked for by the administrator, under rtnl_lock
user_open(d, out) ==
  /\ pw.pc = "idle"
  /\ ~netif_up[d]
  /\ dma_refcnt < MaxRefcnt
  /\ StoreDev(dev_open(DevSt, d, out))
  /\ UNCHANGED <<resetting, hangVars, pwVars>>

user_close(d) ==
  /\ pw.pc = "idle"
  /\ netif_up[d]
  /\ xs.pc = "idle"
  /\ StoreDev(dev_close(DevSt, d))
  /\ UNCHANGED <<resetting, hangVars, pwVars>>

\* ------------------------------------------------------------------ mtk_pending_work
PwIdle == [pc |-> "idle", i |-> 0, restart |-> {}]
NoRg == [was_running |-> {}, stopped |-> {}, inited |-> FALSE, attempted |-> {},
         closed |-> {}]

\* rtnl_lock, set_bit(MTK_RESETTING), mtk_prepare_for_reset
pw_begin ==
  /\ pending_queued
  /\ pw.pc = "idle"
  /\ pending_queued' = FALSE
  /\ resetting' = TRUE
  /\ pw' = [pc |-> "stop", i |-> 0, restart |-> {}]
  /\ rg' = [NoRg EXCEPT !.was_running = {d \in Devs : netif_up[d]}]
  /\ TxQuiet
  /\ UNCHANGED <<rxVars, wdma_hang_count, qdma_hang_count, adma_hang_count,
                 reset_wdidx, hist, devVars>>

\* One pass of the loop that stops the running devices.
pw_stop_step_ring ==
  LET d == pw.i
      run == netif_up[d]
  IN /\ pw.pc = "stop"
     /\ run => xs.pc = "idle"
     /\ StoreDev_ring(IF run THEN mtk_stop(DevSt, d) ELSE DevSt)
     /\ pw' = [pc |-> IF d + 1 < NumDevs THEN "stop" ELSE "init",
               i |-> IF d + 1 < NumDevs THEN d + 1 ELSE 0,
               restart |-> IF run THEN pw.restart \cup {d} ELSE pw.restart]
     /\ rg' = [rg EXCEPT !.stopped = IF run THEN @ \cup {d} ELSE @]
     /\ UNCHANGED <<resetting, hangVars>>

\* The same with mtk_stop_dma taken as one step.
pw_stop_step == pw_stop_step_ring /\ UNCHANGED auxVars

pw_hw_init_clears_flag ==
  /\ pw.pc = "init"
  /\ pw' = [pw EXCEPT !.pc = "restart", !.i = 0]
  /\ rg' = [rg EXCEPT !.inited = TRUE]
  /\ resetting' = FALSE
  /\ TxQuiet
  /\ UNCHANGED <<rxVars, hangVars, devVars>>

\* usleep_range, pinctrl_select_state, mtk_hw_init(eth, true)
pw_hw_init ==
  /\ pw.pc = "init"
  /\ pw' = [pw EXCEPT !.pc = "restart", !.i = 0]
  /\ rg' = [rg EXCEPT !.inited = TRUE]
  /\ resetting' = resetting
  /\ TxQuiet
  /\ UNCHANGED <<rxVars, hangVars, devVars>>

\* One pass of the loop that restarts the devices stopped above.
pw_restart_step(out) ==
  LET d == pw.i
      try == d \in pw.restart
      s == mtk_open(DevSt, d, out)
  IN /\ pw.pc = "restart"
     /\ StoreDev(IF ~try THEN DevSt ELSE IF s.err THEN dev_close(s, d) ELSE s)
     /\ pw' = [pw EXCEPT !.pc = IF d + 1 < NumDevs THEN "restart" ELSE "finish",
                         !.i = IF d + 1 < NumDevs THEN d + 1 ELSE 0]
     /\ rg' = [rg EXCEPT !.attempted = IF try THEN @ \cup {d} ELSE @,
                         !.closed = IF try /\ s.err THEN @ \cup {d} ELSE @]
     /\ UNCHANGED <<resetting, hangVars>>

\* FE ports link up, clear_bit(MTK_RESETTING), rtnl_unlock
pw_end ==
  /\ pw.pc = "finish"
  /\ resetting' = FALSE
  /\ pw' = PwIdle
  /\ rg' = NoRg
  /\ TxQuiet
  /\ UNCHANGED <<rxVars, hangVars, devVars>>

\* The devices as mtk_open of each leaves them, with no hang observed; with a
\* reset under way when r holds.
ResetInit(r) ==
  /\ wdma_hang_count = 0
  /\ qdma_hang_count = 0
  /\ adma_hang_count = 0
  /\ reset_wdidx = 0
  /\ pending_queued = FALSE
  /\ hist = <<>>
  /\ resetting = r
  /\ netif_up = [d \in Devs |-> TRUE]
  /\ phy_attached = [d \in Devs |-> TRUE]
  /\ dma_refcnt = NumDevs
  /\ dma_up = TRUE
  /\ pw = IF r THEN [pc |-> "stop", i |-> 0, restart |-> {}] ELSE PwIdle
  /\ rg = IF r THEN [NoRg EXCEPT !.was_running = Devs] ELSE NoRg

\* ------------------------------------------------------------------ Spec
Init ==
  /\ TxInit(TRUE)
  /\ RxInit(TRUE, FALSE)
  /\ ResetInit(FALSE)

InitPdma ==
  /\ TxInit(FALSE)
  /\ RxInit(FALSE, FALSE)
  /\ ResetInit(FALSE)

InitRx ==
  /\ TxInit(TRUE)
  /\ \E pool \in BOOLEAN, caps_36bit \in BOOLEAN : RxInit(pool, caps_36bit)
  /\ \E r \in BOOLEAN : ResetInit(r)

\* The DMA mapping calls a packet makes, and none failing (0).
SkbFailAts(skb) == 0 .. (1 + Len(SkbChunks(skb.frags)))
XdpFailAts == 0 .. (1 + MaxFrags)

SubmitSkb ==
  \E d \in TxDevs, skb \in Skbs :
    \E f \in SkbFailAts(skb), kick \in BOOLEAN,
       cow \in (IF skb.gso THEN BOOLEAN ELSE {FALSE}) :
      mtk_start_xmit(d, skb, f, kick, cow)

SubmitXdpCheck ==
  \E d \in TxDevs, xdpf \in XdpFrames, m \in BOOLEAN : xdp_submit_check(d, xdpf, m)

SubmitXdpLocked == \E f \in XdpFailAts : xdp_submit_locked(f)

PollTxBegin == \E budget \in 1 .. MaxBudget : poll_tx_begin(budget)

\* QDMA backend, packets from the stack
Next ==
  \/ SubmitSkb
  \/ qdma_hw_tx_done
  \/ PollTxBegin
  \/ poll_tx_step
  \/ poll_tx_end

Spec == Init /\ [][Next]_vars

\* QDMA backend, frames from XDP
NextXdp ==
  \/ SubmitXdpCheck
  \/ SubmitXdpLocked
  \/ qdma_hw_tx_done
  \/ PollTxBegin
  \/ poll_tx_step
  \/ poll_tx_end

SpecXdp == Init /\ [][NextXdp]_vars

\* PDMA backend, packets from the stack handed to the device until the ring is full
NextPdma ==
  \/ SubmitSkb
  \/ pdma_hw_tx_done

SpecPdma == InitPdma /\ [][NextPdma]_vars

\* Receive ring: polling, the device, and the stack releasing buffers
RxPollPass ==
  \E mac_ok \in BOOLEAN, alloc_ok \in BOOLEAN,
     map_ok \in (IF page_pool THEN {TRUE} ELSE BOOLEAN),
     act \in (IF page_pool THEN XdpActs ELSE {"NOPROG"}) :
    \E ok_in \in (IF act \in {"XDP_TX", "XDP_REDIRECT"} THEN BOOLEAN ELSE {TRUE}),
       build_ok \in (IF act \in {"NOPROG", "XDP_PASS"} THEN BOOLEAN ELSE {TRUE}) :
      rx_poll_pass(mac_ok, alloc_ok, map_ok, act, ok_in, build_ok)

NextRxRing ==
  \/ rx_poll_begin(RxBudget)
  \/ RxPollPass
  \/ rx_poll_release
  \/ rx_poll_end
  \/ rx_hw_receive
  \/ \E b \in Bufs : rx_buf_release(b)

SpecRx == InitRx /\ [][NextRxRing]_vars

\* Hang detector: the periodic work with every register reading
MonitorWork ==
  \E wdidx \in 0 .. 1, ws \in BOOLEAN, qs \in BOOLEAN, as \in BOOLEAN :
    mtk_hw_reset_monitor_work(wdidx, ws, qs, as)

NextHang == MonitorWork

SpecHang == Init /\ [][NextHang]_vars

\* Reset orchestrator: devices opened and closed, the watchdog, the reset work,
\* and single-descriptor submissions on the rings while they are allocated
LinearSkb == [headlen |-> 1, frags |-> <<>>, gso |-> FALSE]
LinearXdp == [len |-> 1, frags |-> <<>>, page |-> -1]

SubmitSkbReset ==
  \E d \in Devs : netif_up[d] /\ dma_up /\ mtk_start_xmit(d, LinearSkb, 0, TRUE, FALSE)

SubmitXdpCheckReset ==
  \E d \in Devs : netif_up[d] /\ dma_up /\ xdp_submit_check(d, LinearXdp, FALSE)

SubmitXdpLockedReset == dma_up /\ xdp_submit_locked(0)

NextReset ==
  \/ \E d \in Devs, out \in OpenOuts : user_open(d, out)
  \/ \E d \in Devs : user_close(d)
  \/ \E d \in Devs, check \in BOOLEAN : mtk_tx_timeout(d, check)
  \/ pw_begin
  \/ pw_stop_step
  \/ pw_hw_init
  \/ \E out \in OpenOuts : pw_restart_step(out)
  \/ pw_end
  \/ SubmitSkbReset
  \/ SubmitXdpCheckReset
  \/ SubmitXdpLockedReset

SpecReset == Init /\ [][NextReset]_vars

\* Both submission paths from every device sharing the QDMA ring, until it is full
SubmitSkbAny ==
  \E d \in Devs, skb \in Skbs :
    \E f \in SkbFailAts(skb), kick \in BOOLEAN,
       cow \in (IF skb.gso THEN BOOLEAN ELSE {FALSE}) :
      mtk_start_xmit(d, skb, f, kick, cow)

SubmitXdpCheckAny ==
  \E d \in Devs, xdpf \in XdpFrames, m \in BOOLEAN : xdp_submit_check(d, xdpf, m)

NextSubmit ==
  \/ SubmitSkbAny
  \/ SubmitXdpCheckAny
  \/ SubmitXdpLocked

SpecSubmit == Init /\ [][NextSubmit]_vars

\* Either backend with packets of every device that can share its ring (all of
\* them on QDMA, the single MAC of MT7628 on PDMA), the device and reclaim
InitShared ==
  /\ \E caps_qdma \in BOOLEAN : TxInit(caps_qdma)
  /\ RxInit(FALSE, FALSE)
  /\ ResetInit(FALSE)

FragSkb == [headlen |-> 1, frags |-> <<1>>, gso |-> FALSE]

SubmitSkbShared ==
  \E d \in (IF qdma THEN Devs ELSE {0}), skb \in {LinearSkb, FragSkb} :
    mtk_start_xmit(d, skb, 0, TRUE, FALSE)

NextShared ==
  \/ SubmitSkbShared
  \/ qdma_hw_tx_done
  \/ pdma_hw_tx_done
  \/ PollTxBegin
  \/ poll_tx_step
  \/ poll_tx_end

SpecShared == InitShared /\ [][NextShared]_vars

\* The software side of the ring exactly as mtk_tx_alloc left it: no submission
\* has been made.
FreshRing ==
  /\ txd = [s \in Slots |-> DescDef]
  /\ dma_pdma = [s \in Slots |-> Desp2Def]
  /\ tx_buf = [s \in Slots |-> ZeroBuf]
  /\ free_count = RingSize - 2
  /\ next_free = 0
  /\ last_free = RingSize - 1
  /\ last_free_ptr = RingSize - 1
  /\ cpu_idx = 0

\* Entry of reclaim on a fresh ring, the completion pointer register reading
\* as any value dma.
poll_tx_begin_fresh(budget, dma) ==
  /\ ptx.pc = "idle"
  /\ FreshRing
  /\ ptx' = [pc |-> "loop",
             cpu |-> IF qdma THEN last_free_ptr ELSE cpu_idx,
             dma |-> dma, budget |-> budget, total |-> 0]
  /\ ev' = NoEv
  /\ ghost' = NoGhost
  /\ UNCHANGED <<qdma, txd, dma_pdma, tx_buf, next_free, last_free, last_free_ptr,
                 cpu_idx, free_count, ctx_ptr, drx_ptr, tx_ctx_idx0, tx_dtx_idx0,
                 queue_stopped, xs, lockVars, live, rxVars, resetVars, napiVars, auxVars>>

\* Bring-up: reclaim against whatever the completion pointer register holds
\* before the first submission, then linear packets, the device and reclaim
NextFresh ==
  \/ \E budget \in 1 .. MaxBudget, dma \in Slots : poll_tx_begin_fresh(budget, dma)
  \/ mtk_start_xmit(0, LinearSkb, 0, TRUE, FALSE)
  \/ qdma_hw_tx_done
  \/ pdma_hw_tx_done
  \/ PollTxBegin
  \/ poll_tx_step
  \/ poll_tx_end

SpecFresh == InitShared /\ [][NextFresh]_vars

\* ------------------------------------------------------------------ claims: transmit ring
\* Slots in use: the buffer record holds a packet, a frame or the dummy marker.
SlotsInUse == {s \in Slots : tx_buf[s].data # "NULL"}
\* In use and handed to the device (txd3 without TX_DMA_OWNER_CPU).
SlotsOwnedByDevice == {s \in SlotsInUse : ~txd[s].own}
\* In use and handed back by the device, not yet reclaimed.
SlotsPendingRelease == {s \in SlotsInUse : txd[s].own}

OwnedByCpu(d, p, s) == IF qdma THEN d[s].own ELSE p[s].ddone

\* The ring state a failed submission must leave alone: counters, position,
\* and per slot the ownership flag, the packet pointer, the mapping flags and
\* the live mappings.
SubmitRestored ==
  /\ free_count' = free_count
  /\ next_free' = next_free
  /\ live' = live
  /\ \A s \in Slots :
       /\ OwnedByCpu(txd', dma_pdma', s) = OwnedByCpu(txd, dma_pdma, s)
       /\ tx_buf'[s].data = tx_buf[s].data
       /\ tx_buf'[s].flags = tx_buf[s].flags

\* C2: a submission that fails part way through a chain (mtk_tx_map or
\* mtk_xdp_submit_frame) leaves free_count, next_free and every slot it
\* touched as they were, with every mapping it made released.
C2_FailedSubmitRestores == [][ev'.fail => SubmitRestored]_vars

\* ------------------------------------------------------------------ claims: receive ring
\* Every receive slot holds a buffer of its own that the ring owns and that
\* is mapped for the device, and a slot the device has holds that buffer's
\* bus address.
RxSlotsValid ==
  \A s \in RxSlots :
    /\ rx_data[s] \in Bufs
    /\ buf_owner[rx_data[s]] = "ring"
    /\ rx_data[s] \in rx_mapped
    /\ \A t \in RxSlots \ {s} : rx_data[t] # rx_data[s]
    /\ ~rxd[s].done => BufAt(rxd[s].lo, rxd[s].hi) = rx_data[s]

\* A step in which a buffer leaves the ring (to the stack, the program's
\* target, the transmit ring or the allocator) puts a newly acquired, mapped
\* buffer into its slot and points rxd1 at it, and the slot is still the CPU's.
RxHandOutStep ==
  \A b \in Bufs :
    (buf_owner[b] = "ring" /\ buf_owner'[b] # "ring") =>
      \E s \in RxSlots :
        /\ rx_data[s] = b
        /\ rx_data'[s] # b
        /\ buf_owner[rx_data'[s]] = "free"
        /\ buf_owner'[rx_data'[s]] = "ring"
        /\ rx_data'[s] \in rx_mapped'
        /\ rxd'[s].lo = AddrLo(rx_data'[s])
        /\ rxd[s].done /\ rxd'[s].done

\* A step that gives a slot back to the device gives it back with a buffer
\* the ring owns, mapped, and rxd1 pointing at it.
RxGiveBackStep ==
  \A s \in RxSlots :
    (rxd[s].done /\ ~rxd'[s].done) =>
      /\ rx_data'[s] = rx_data[s]
      /\ buf_owner'[rx_data'[s]] = "ring"
      /\ rx_data'[s] \in rx_mapped'
      /\ rxd'[s].lo = AddrLo(rx_data'[s])

\* C3: after any sequence of receive polls, with replacement allocations and
\* mappings succeeding or failing at will, every receive slot holds a valid
\* mapped buffer; a slot's old buffer is handed out only in a pass that has
\* acquired a replacement and installed it, before the slot is given back.
C3_RxSlotsAlwaysBacked == []RxSlotsValid /\ [][RxHandOutStep /\ RxGiveBackStep]_vars

\* ------------------------------------------------------------------ claims: submission during a reset
RingUntouched ==
  UNCHANGED <<txd, dma_pdma, tx_buf, next_free, free_count, ctx_ptr, tx_ctx_idx0, live>>

\* C4 (as stated): while MTK_RESETTING is set every submission, by mtk_start_xmit
\* or by mtk_xdp_submit_frame, returns Busy, leaves the packet with its caller
\* and queues nothing.
C4_AsStated ==
  [][resetting /\ ev'.op # "none" =>
       ev'.ret = "BUSY" /\ ev'.skb = "kept" /\ RingUntouched]_vars

\* C4 (amended): while MTK_RESETTING is set, a mtk_xdp_submit_frame call tests the
\* flag first, returns -EBUSY and leaves the frame with its caller; a
\* mtk_start_xmit call tests the flag under page_lock before anything else,
\* frees the packet and returns NETDEV_TX_OK; neither writes the ring.
C4_ResettingRejects ==
  [][resetting =>
       /\ ev'.op = "start_xmit" =>
            ev'.ret = "OK" /\ ev'.skb = "freed" /\ ev'.taken = 0 /\ RingUntouched
       /\ xs.pc = "idle" => xs'.pc = "idle"
       /\ xs.pc = "idle" /\ ev'.op = "xdp_submit" =>
            ev'.ret = "BUSY" /\ ev'.skb = "kept" /\ ev'.taken = 0 /\ RingUntouched]_vars

\* a frame refused because of the flag alone, with room left on the ring
C4_Witness ==
  /\ resetting
  /\ ev.op = "xdp_submit"
  /\ ev.ret = "BUSY"
  /\ free_count > 1 + MaxFrags

\* ------------------------------------------------------------------ claims: hang detector
Held(s, n) == s \in hist[n].held

HeldThrice(s, n) == Held(s, n - 2) /\ Held(s, n - 1) /\ Held(s, n)

\* C5: when check n returns true, one single signature held at checks n-2, n-1
\* and n.
C5_HangNeedsThreeInARow ==
  \A n \in 1 .. Len(hist) :
    hist[n].ret => n >= 3 /\ \E s \in Sigs : HeldThrice(s, n)

\* C6: after a check, the counter of every signature whose condition was false at
\* that check is zero.
C6_FalseConditionZeroesCounter ==
  hist # <<>> =>
    LET held == hist[Len(hist)].held
    IN /\ "WDMA" \notin held => wdma_hang_count = 0
       /\ "QDMA" \notin held => qdma_hang_count = 0
       /\ "ADMA" \notin held => adma_hang_count = 0

\* C7: a signature that holds at checks n-2, n-1 and n, with no hang declared at
\* n-2 or n-1, makes check n return true whatever the other signatures do.
C7_ThreeInARowFires ==
  \A n \in 3 .. Len(hist) :
    (\E s \in Sigs : HeldThrice(s, n)) /\ ~hist[n - 2].ret /\ ~hist[n - 1].ret
      => hist[n].ret

TimesHeld(s) == Cardinality({n \in 1 .. Len(hist) : Held(s, n)})

NeverConsecutive(s) ==
  \A n \in 1 .. Len(hist) - 1 : ~(Held(s, n) /\ Held(s, n + 1))

\* Two signatures held at exactly two checks each, never at two checks in a row,
\* and the remaining signature at no more than two checks.
TwoSignaturesTwiceEach ==
  \E s1 \in Sigs, s2 \in Sigs :
    /\ s1 # s2
    /\ TimesHeld(s1) = 2 /\ NeverConsecutive(s1)
    /\ TimesHeld(s2) = 2 /\ NeverConsecutive(s2)
    /\ \A s \in Sigs \ {s1, s2} : TimesHeld(s) <= 2

\* C8: in a sequence of checks where two different signatures are each observed
\* twice, never on consecutive checks, no check returns true and the reset work
\* is never scheduled.
C8_AlternatingNeverFires ==
  TwoSignaturesTwiceEach =>
    /\ \A n \in 1 .. Len(hist) : ~hist[n].ret /\ ~hist[n].sched
    /\ ~pending_queued

\* WDMA and QDMA alternate over four checks and both counters stand at two
C8_Witness ==
  /\ TwoSignaturesTwiceEach
  /\ Len(hist) = 4
  /\ wdma_hang_count = 2
  /\ qdma_hang_count = 2

\* ------------------------------------------------------------------ claims: reset orchestrator
FlagChangeAllowed ==
  resetting' # resetting =>
    \/ pw.pc = "idle" /\ pw'.pc = "stop" /\ resetting' /\ rg'.stopped = {}
    \/ /\ pw.pc = "finish" /\ pw'.pc = "idle" /\ ~resetting'
       /\ rg.inited /\ rg.attempted = pw.restart

\* C9: in a run of mtk_pending_work MTK_RESETTING is set once, at entry before
\* any device is stopped, cleared once, at the end after mtk_hw_init and every
\* restart attempt, and is set in every state in between.
C9_FlagSpansReset ==
  /\ [](resetting <=> pw.pc # "idle")
  /\ [](rg.stopped # {} \/ rg.inited \/ rg.attempted # {} => resetting)
  /\ [][FlagChangeAllowed]_vars

\* a run that stopped and tried to restart a device, about to clear the flag
C9_Witness ==
  /\ pw.pc = "finish"
  /\ resetting
  /\ rg.stopped # {}
  /\ rg.inited
  /\ rg.attempted = rg.stopped

\* A device the reset restarted: up, its PHY attached, the shared rings allocated.
RunningAgain(d) == netif_up[d] /\ phy_attached[d] /\ dma_up

\* C10: when mtk_pending_work finishes, every device that was running before is
\* running again or was closed by dev_close after its mtk_open failed, and no
\* other device is up.
C10_RestartedOrClosed ==
  pw.pc = "finish" =>
    \A d \in Devs :
      IF d \in rg.was_running
      THEN \/ d \notin rg.closed /\ RunningAgain(d)
           \/ d \in rg.closed /\ ~netif_up[d]
      ELSE ~netif_up[d]

ReclaimStep == ptx.pc = "loop" /\ ptx'.pc = "loop" /\ ptx'.cpu # ptx.cpu

Released == {s \in Slots : tx_buf[s].data # "NULL" /\ tx_buf'[s].data = "NULL"}

C13_FreshRingNoCompletion ==
  [][FreshRing /\ ptx.pc = "loop" /\ ptx' # ptx =>
       /\ ptx'.pc = "idle"
       /\ ptx.total = 0
       /\ Released = {}
       /\ FreshRing']_vars

\* a reclaim on the fresh ring that read a completion pointer different from
\* its own
C13_Witness ==
  /\ FreshRing
  /\ ptx.pc = "loop"
  /\ ptx.cpu # ptx.dma
  /\ ptx.budget > 0

\* ------------------------------------------------------------------ claims: receive failures
RxAcquireFailed(out) == out \in {"alloc_fail", "map_fail"}

\* C14: when the replacement buffer cannot be allocated or mapped, the pass
\* keeps the slot's buffer, delivers nothing and counts one receive drop, and
\* release_desc hands the descriptor back with the bus address it had (rxd1 and
\* the upper address bits), at any position in a polling pass.
C14_FailedReplacementKeepsSlot ==
  [][LET idx == NextRx(calc_idx)
     IN /\ rp.pc = "loop" /\ rp'.pc = "release" /\ RxAcquireFailed(rev'.out) =>
             /\ rx_data'[idx] = rx_data[idx]
             /\ rxd'[idx] = rxd[idx]
             /\ buf_owner' = buf_owner
             /\ rev'.dropped
        /\ rp.pc = "release" /\ rp'.pc = "loop" /\ RxAcquireFailed(rev.out) =>
             /\ rx_data'[idx] = rx_data[idx]
             /\ rxd'[idx].lo = rxd[idx].lo
             /\ rxd'[idx].hi = rxd[idx].hi
             /\ ~rxd'[idx].done
             /\ BufAt(rxd'[idx].lo, rxd'[idx].hi) = rx_data'[idx]]_vars

\* ------------------------------------------------------------------ claims: XDP on the receive path
\* Page-pool receive ring with a program attached or not, the QDMA transmit
\* ring taking the XDP_TX frames, the device completing them and reclaim
\* giving their pages back.
InitRxXdp == TxInit(TRUE) /\ RxInit(TRUE, FALSE) /\ ResetInit(FALSE)

NextRxXdp ==
  \/ rx_poll_begin(RxBudget)
  \/ RxPollPass
  \/ rx_poll_release
  \/ rx_poll_end
  \/ rx_hw_receive
  \/ \E b \in Bufs : rx_buf_release(b)
  \/ qdma_hw_tx_done
  \/ PollTxBegin
  \/ poll_tx_step
  \/ poll_tx_end

SpecRxXdp == InitRxXdp /\ [][NextRxXdp]_vars

\* The transmit slots whose record holds the frame sitting in buffer b.
TxSlotsHolding(b) == {s \in Slots : tx_buf[s].data = "XDPF" /\ tx_buf[s].page = b}

\* What became of a buffer, by the outcome of the pass that took it out.
DisposedTo(out) ==
  CASE out \in {"deliver", "XDP_REDIRECT"} -> "out"
    [] out = "XDP_TX" -> "txring"
    [] OTHER -> "free"

\* C15: a pooled buffer taken out of a receive slot is disposed of exactly once.
\* A pass of mtk_poll_rx that replaces the slot's buffer hands the old one to
\* exactly one holder: the stack (pass and packet built), the redirect target,
\* the transmit ring (XDP_TX queued) or the pool (every other outcome).  A
\* buffer held by the transmit ring sits in exactly one slot, leaves the ring
\* only when reclaim unmaps that slot, and then goes to the pool.
C15_BufferDisposedOnce ==
  [][LET idx == NextRx(calc_idx)
         old == rx_data[idx]
         pg == tx_unmap_page(tx_buf[poll_tx_slot])
     IN /\ rp.pc = "loop" /\ rp'.pc = "release" /\ rx_data'[idx] # old =>
             /\ rev'.disp = 1
             /\ buf_owner[old] = "ring"
             /\ buf_owner'[old] = DisposedTo(rev'.out)
             /\ Cardinality({s \in Slots : tx_buf'[s].data = "XDPF" /\ tx_buf'[s].page = old})
                  = (IF rev'.out = "XDP_TX" THEN 1 ELSE 0)
        /\ \A b \in Bufs :
             /\ buf_owner[b] = "txring" => Cardinality(TxSlotsHolding(b)) = 1
             /\ buf_owner[b] = "txring" /\ buf_owner'[b] # "txring" =>
                  /\ ptx.pc = "loop" /\ ptx'.cpu # ptx.cpu
                  /\ pg = b
                  /\ buf_owner'[b] = "free"
                  /\ TxSlotsHolding(b)' = {}
             /\ buf_owner[b] # "txring" => TxSlotsHolding(b) = {}]_vars

\* C15 witness: the pass under way ended in XDP_TX, its frame was queued, sent
\* and reclaimed: the slot is empty again and the page is back in the pool.
C15_Witness ==
  /\ rp.pc = "release"
  /\ rev.out = "XDP_TX"
  /\ rev.disp = 1
  /\ ptx.pc = "loop"
  /\ next_free = NextSlot(last_free)
  /\ free_count = RingSize - 2
  /\ tx_buf[last_free].data = "NULL"
  /\ \A b \in Bufs : buf_owner[b] # "txring"

\* What one mtk_xdp_run added to the verdict counters, all five together.
XdpStatsAdded(st) ==
  st["rx_xdp_pass"] + st["rx_xdp_drop"] + st["rx_xdp_redirect"] + st["rx_xdp_tx"]
    + st["rx_xdp_tx_errors"]

\* The step of mtk_poll_rx in which mtk_xdp_run was called with a program attached.
XdpRunStep == rp.pc = "loop" /\ rp'.pc = "release" /\ rev'.prog

\* C16: with a program attached, each call of mtk_xdp_run increments exactly
\* one of the five verdict counters, by one, so over any window their sum
\* grows by the number of calls; a step that does not call it leaves them alone.
C16_OneCounterPerRun ==
  [][/\ XdpRunStep =>
          /\ XdpStatsAdded(rev'.stats) = 1
          /\ \A c \in XdpCounters : rev'.stats[c] \in {0, 1}
     /\ ~XdpRunStep => XdpStatsAdded(rev'.stats) = 0]_vars

\* C16 witness: a retransmit that failed was counted as rx_xdp_tx_errors and as
\* nothing else, in the second pass of a poll.
C16_Witness ==
  /\ rp.pc = "release"
  /\ rev.prog
  /\ rev.out = "XDP_DROP"
  /\ rev.stats["rx_xdp_tx_errors"] = 1
  /\ rev.stats["rx_xdp_drop"] = 0
  /\ rp.done = 1

\* ------------------------------------------------------------------ claims: the submission lock
\* Submissions taken in steps, so that two of them can be under way at once:
\* context c submits for device c, a packet with one fragment (mtk_start_xmit,
\* two descriptors) or a linear frame (mtk_xdp_submit_frame, one descriptor).
SubKinds == {"skb", "xdp"}

\* Device 0 carries packets of the stack; device 1 carries those and the frames
\* other devices redirect to it (ndo_xdp_xmit).
SubKindsOf(c) == IF c = 0 THEN {"skb"} ELSE SubKinds

\* Entry of a submission.  mtk_xdp_submit_frame makes its two tests here, before
\* it asks for the lock; mtk_start_xmit asks for the lock first.
submit_enter(c, kind) ==
  /\ sub[c].pc = "idle"
  /\ kind = "skb" => ~queue_stopped[c]
  /\ IF kind = "xdp" /\ xdp_busy(0)
     THEN /\ ev' = [op |-> "xdp_submit", ret |-> "BUSY", taken |-> 0, req |-> 1,
                    fail |-> FALSE, unwound |-> FALSE, skb |-> "kept"]
          /\ UNCHANGED sub
     ELSE /\ sub' = [sub EXCEPT ![c] = [pc |-> "wait", kind |-> kind, itxd |-> 0]]
          /\ ev' = NoEv
  /\ ghost' = NoGhost
  /\ UNCHANGED <<qdma, txd, dma_pdma, tx_buf, next_free, last_free, last_free_ptr,
                 cpu_idx, free_count, ctx_ptr, drx_ptr, tx_ctx_idx0, tx_dtx_idx0,
                 queue_stopped, ptx, xs, live, page_lock, rxVars, resetVars, napiVars, auxVars>>

\* mutant: a lock that lets every caller in
spin_lock_never_waits == TRUE

\* spin_lock(&eth->page_lock) returns only when no other context holds the lock.
spin_lock_acquires == page_lock = {}

\* spin_lock(&eth->page_lock) returns, and the code up to the read of
\* ring->next_free: in mtk_start_xmit the tests of MTK_RESETTING and of the free
\* count come first and can end the call (spin_unlock, drop or NETDEV_TX_BUSY).
submit_lock(c) ==
  LET k == sub[c]
      tx_num == mtk_cal_txd_req(FragSkb)
      e == [op |-> "start_xmit", ret |-> "OK", taken |-> 0, req |-> tx_num,
            fail |-> FALSE, unwound |-> FALSE, skb |-> "freed"]
  IN /\ k.pc = "wait"
     /\ spin_lock_acquires
     /\ IF k.kind = "skb" /\ resetting
        THEN /\ ev' = e
             /\ UNCHANGED <<queue_stopped, page_lock>>
             /\ sub' = [sub EXCEPT ![c] = SubIdle]
        ELSE IF k.kind = "skb" /\ free_count <= tx_num
        THEN /\ ev' = [e EXCEPT !.ret = "BUSY", !.skb = "kept"]
             /\ queue_stopped' = [queue_stopped EXCEPT ![c] = TRUE]
             /\ UNCHANGED page_lock
             /\ sub' = [sub EXCEPT ![c] = SubIdle]
        ELSE /\ ev' = NoEv
             /\ page_lock' = page_lock \cup {c}
             /\ sub' = [sub EXCEPT ![c].pc = "locked", ![c].itxd = next_free]
             /\ UNCHANGED queue_stopped
     /\ ghost' = NoGhost
     /\ UNCHANGED <<qdma, txd, dma_pdma, tx_buf, next_free, last_free, last_free_ptr,
                    cpu_idx, free_count, ctx_ptr, drx_ptr, tx_ctx_idx0, tx_dtx_idx0,
                    ptx, xs, live, rxVars, resetVars, napiVars, auxVars>>

\* The rest of the submission, from the slot read to spin_unlock: the walk
\* writes the descriptors and buffer records, next_free is set from the walk's
\* last descriptor, and the number of descriptors is subtracted from free_count.
submit_body(c) ==
  LET k == sub[c]
      st == IF k.kind = "skb" THEN mtk_tx_map_from(k.itxd, c, FragSkb, 0)
            ELSE xdp_submit_walk_from(k.itxd, c, LinearXdp, TRUE, 0)
      e == [op |-> IF k.kind = "skb" THEN "start_xmit" ELSE "xdp_submit",
            ret |-> st.ret, taken |-> 0, req |-> IF k.kind = "skb" THEN 2 ELSE 1,
            fail |-> st.err, unwound |-> st.unwound,
            skb |-> IF k.kind = "skb" THEN "freed" ELSE "kept"]
  IN /\ k.pc = "locked"
     /\ StoreRing(st)
     /\ IF st.err
        THEN /\ ev' = e
             /\ UNCHANGED <<next_free, free_count, ctx_ptr, tx_ctx_idx0, queue_stopped>>
        ELSE /\ next_free' = NextSlot(st.cur)
             /\ free_count' = free_count - st.n
             /\ IF qdma
                THEN ctx_ptr' = NextSlot(st.cur) /\ UNCHANGED tx_ctx_idx0
                ELSE tx_ctx_idx0' = NextSlot(st.cur) /\ UNCHANGED ctx_ptr
             /\ queue_stopped' = IF k.kind = "skb" /\ free_count' <= Thresh
                                  THEN [queue_stopped EXCEPT ![c] = TRUE]
                                  ELSE queue_stopped
             /\ ev' = [e EXCEPT !.taken = st.n, !.skb = "queued"]
     /\ page_lock' = page_lock \ {c}
     /\ sub' = [sub EXCEPT ![c] = SubIdle]
     /\ UNCHANGED <<qdma, last_free, last_free_ptr, cpu_idx, drx_ptr, tx_dtx_idx0, ptx,
                    xs, rxVars, resetVars, napiVars, auxVars>>

NextLock ==
  \/ \E c \in Ctxs : \E kind \in SubKindsOf(c) : submit_enter(c, kind)
  \/ \E c \in Ctxs : submit_lock(c)
  \/ \E c \in Ctxs : submit_body(c)
  \/ qdma_hw_tx_done
  \/ PollTxBegin
  \/ poll_tx_step
  \/ poll_tx_end

SpecLock == Init /\ [][NextLock]_vars

\* The contexts between the read of next_free and spin_unlock.
InBody == {c \in Ctxs : sub[c].pc = "locked"}

\* The slots a step wrote a buffer record of.
SlotsWritten == {s \in Slots : tx_buf'[s] # tx_buf[s]}

\* C17: submissions from different devices are serialized by page_lock.  At
\* most one context is between spin_lock and spin_unlock, so no two
\* submissions work from the same value of next_free; the slots a submission
\* writes are free slots starting at next_free that nobody else wrote since it
\* read the pointer; when it ends next_free has moved by, and free_count has
\* dropped by, the number of slots it took, so that after any number of
\* submissions both reflect the sum.
C17_SubmissionsSerialized ==
  [][/\ Cardinality(InBody) <= 1
     /\ InBody = page_lock
     /\ \A c \in Ctxs :
          sub[c].pc = "locked" /\ sub'[c].pc = "idle" =>
            LET n == free_count - free_count'
            IN /\ sub[c].itxd = next_free
               /\ n = ev'.taken
               /\ Cardinality(SlotsWritten) = n
               /\ \A s \in SlotsWritten : tx_buf[s].data = "NULL" /\ tx_buf'[s].mac_id = c
               /\ n > 0 => SlotsWritten = {(next_free + i) % RingSize : i \in 0 .. (n - 1)}
               /\ next_free' = (next_free + n) % RingSize
     /\ free_count + Cardinality(SlotsInUse) = RingSize - 2]_vars

\* C17 witness: one context is inside the lock while the other, having asked
\* for it, waits; a frame of the other device is on the ring and a packet of this
\* one was reclaimed.
C17_Witness ==
  /\ sub[0].pc = "locked"
  /\ sub[0].kind = "skb"
  /\ sub[1].pc = "wait"
  /\ sub[1].kind = "xdp"
  /\ \E s \in SlotsInUse : tx_buf[s].mac_id = 1 /\ tx_buf[s].data = "XDPF"
  /\ last_free # RingSize - 1

\* ------------------------------------------------------------------ mtk_xdp_xmit
MaxBatch == 3

\* Entry of mtk_xdp_xmit for device d with num_frame linear frames (the flags
\* are valid).
xdp_xmit_begin(d, num_frame) ==
  /\ xs.pc = "idle"
  /\ xs' = [XsIdle EXCEPT !.pc = "xmit", !.dev = d, !.xdpf = LinearXdp, !.dma_map = TRUE,
                          !.n = num_frame]
  /\ ev' = NoEv
  /\ ghost' = NoGhost
  /\ UNCHANGED <<qdma, txd, dma_pdma, tx_buf, next_free, last_free, last_free_ptr,
                 cpu_idx, free_count, ctx_ptr, drx_ptr, tx_ctx_idx0, tx_dtx_idx0,
                 queue_stopped, ptx, live, lockVars, rxVars, resetVars, napiVars, auxVars>>

\* mutant: a loop that goes on to the next frame whatever the result
xdp_xmit_never_breaks(ret) == FALSE

\* if (mtk_xdp_submit_frame(eth, frames[i], dev, true)) break;
xdp_xmit_breaks(ret) == ret # "OK"

\* One pass of the for loop: mtk_xdp_submit_frame on frame i (failAt: the DMA
\* mapping that fails, 0 for none), then break or nxmit++.
xdp_xmit_frame(failAt) ==
  LET busy == xdp_busy(Len(xs.xdpf.frags))
      st == xdp_submit_walk(xs.dev, xs.xdpf, TRUE, failAt)
      ret == IF busy THEN "BUSY" ELSE st.ret
      e == [op |-> "xdp_submit", ret |-> ret, taken |-> 0,
            req |-> 1 + Len(xs.xdpf.frags), fail |-> ~busy /\ st.err,
            unwound |-> ~busy /\ st.unwound, skb |-> "kept"]
  IN /\ xs.pc = "xmit"
     /\ xs.tried < xs.n
     /\ IF busy
        THEN /\ ev' = e
             /\ ghost' = NoGhost
             /\ UNCHANGED <<txd, dma_pdma, tx_buf, live, next_free, free_count, ctx_ptr,
                            tx_ctx_idx0>>
        ELSE /\ StoreRing(st)
             /\ IF st.err
                THEN /\ ev' = e
                     /\ UNCHANGED <<next_free, free_count, ctx_ptr, tx_ctx_idx0>>
                ELSE /\ next_free' = NextSlot(st.cur)
                     /\ free_count' = free_count - st.n
                     /\ IF qdma
                        THEN ctx_ptr' = NextSlot(st.cur) /\ UNCHANGED tx_ctx_idx0
                        ELSE tx_ctx_idx0' = NextSlot(st.cur) /\ UNCHANGED ctx_ptr
                     /\ ev' = [e EXCEPT !.taken = st.n, !.skb = "queued"]
     /\ xs' = [xs EXCEPT !.tried = @ + 1,
                         !.nxmit = IF ret = "OK" THEN @ + 1 ELSE @,
                         !.pc = IF xdp_xmit_breaks(ret) THEN "xmit_end" ELSE "xmit"]
     /\ UNCHANGED <<qdma, last_free, last_free_ptr, cpu_idx, drx_ptr, tx_dtx_idx0,
                    queue_stopped, ptx, lockVars, rxVars, resetVars, napiVars, auxVars>>

\* After the loop: tx_xdp_xmit += nxmit, tx_xdp_xmit_errors += num_frame - nxmit,
\* return nxmit.
xdp_xmit_end ==
  /\ xs.pc \in {"xmit", "xmit_end"}
  /\ xs.pc = "xmit" => xs.tried >= xs.n
  /\ xs' = XsIdle
  /\ ev' = [NoEv EXCEPT !.op = "xdp_xmit", !.taken = xs.nxmit, !.req = xs.n]
  /\ ghost' = NoGhost
  /\ UNCHANGED <<qdma, txd, dma_pdma, tx_buf, next_free, last_free, last_free_ptr,
                 cpu_idx, free_count, ctx_ptr, drx_ptr, tx_ctx_idx0, tx_dtx_idx0,
                 queue_stopped, ptx, live, lockVars, rxVars, resetVars, napiVars, auxVars>>

NextXmit ==
  \/ \E d \in Devs, num_frame \in 1 .. MaxBatch : xdp_xmit_begin(d, num_frame)
  \/ \E failAt \in 0 .. 1 : xdp_xmit_frame(failAt)
  \/ xdp_xmit_end
  \/ qdma_hw_tx_done
  \/ PollTxBegin
  \/ poll_tx_step
  \/ poll_tx_end

SpecXmit == Init /\ [][NextXmit]_vars

\* The step that ends a batch.
XmitReturns == xs.pc \in {"xmit", "xmit_end"} /\ xs'.pc = "idle"

napi_schedule_prep(n) ==
  [n |-> IF n.sched THEN [n EXCEPT !.missed = TRUE] ELSE [n EXCEPT !.sched = TRUE],
   ret |-> ~n.sched]

\* __napi_schedule: the task is queued on the softirq's poll list.
napi_schedule(n) == [n EXCEPT !.list = @ + 1]

\* napi_complete_done: with NAPI_STATE_MISSED set the task stays scheduled and
\* is queued again (false); otherwise NAPI_STATE_SCHED is cleared (true).
napi_complete_done(n) ==
  IF n.missed
  THEN [n |-> napi_schedule([n EXCEPT !.missed = FALSE]), ret |-> FALSE]
  ELSE [n |-> [n EXCEPT !.sched = FALSE], ret |-> TRUE]

\* What the softirq does with a task whose poll function returned work out of
\* budget: a task that used its whole budget is polled again.
napi_poll_returns(n, work, budget) ==
  [(IF work = budget THEN napi_schedule(n) ELSE n)
     EXCEPT !.pc = "idle", !.budget = 0, !.total = 0]

\* mutant: a handler that schedules whatever napi_schedule_prep says
irq_schedules_always(prep_ret) == TRUE

\* if (likely(napi_schedule_prep(&eth->tx_napi))) { disable; __napi_schedule }
irq_schedules(prep_ret) == prep_ret

\* The handler on task n with its interrupt class enabled as mask says:
\* the task and the mask after it.
mtk_handle_irq_napi(n, mask) ==
  LET p == napi_schedule_prep(n)
  IN IF irq_schedules(p.ret)
     THEN [n |-> napi_schedule(p.n), mask |-> FALSE]
     ELSE [n |-> p.n, mask |-> mask]

\* The variables the interrupt side leaves alone.
ringVars == <<qdma, txd, dma_pdma, tx_buf, next_free, last_free, last_free_ptr, cpu_idx,
              free_count, ctx_ptr, drx_ptr, tx_ctx_idx0, tx_dtx_idx0, queue_stopped, ptx,
              xs, lockVars, live, ghost, ev, rxVars, resetVars, auxVars>>

\* mtk_handle_irq_tx: the device raises the interrupt while MTK_TX_DONE_INT is
\* pending and enabled.
mtk_handle_irq_tx ==
  LET r == mtk_handle_irq_napi(napi_tx, tx_irq_mask)
  IN /\ tx_irq_status /\ tx_irq_mask
     /\ napi_tx' = r.n
     /\ tx_irq_mask' = r.mask
     /\ nev' = [op |-> "irq_tx", ret |-> 0]
     /\ UNCHANGED <<ringVars, tx_irq_status, rx_irq_mask, rx_irq_status, napi_rx, traffic>>

\* mtk_handle_irq_rx
mtk_handle_irq_rx ==
  LET r == mtk_handle_irq_napi(napi_rx, rx_irq_mask)
  IN /\ rx_irq_status /\ rx_irq_mask
     /\ napi_rx' = r.n
     /\ rx_irq_mask' = r.mask
     /\ nev' = [op |-> "irq_rx", ret |-> 0]
     /\ UNCHANGED <<ringVars, rx_irq_status, tx_irq_mask, tx_irq_status, napi_tx, traffic>>

\* mtk_poll_controller (netpoll): both classes are disabled, mtk_handle_irq_rx
\* is called directly, both classes are enabled again.  Netpoll comes in while
\* the receive task is not waiting on the poll list.
mtk_poll_controller ==
  LET r == mtk_handle_irq_napi(napi_rx, FALSE)
  IN /\ napi_rx.list = 0
     /\ napi_rx' = r.n
     /\ tx_irq_mask' = TRUE
     /\ rx_irq_mask' = TRUE
     /\ nev' = [op |-> "poll_controller", ret |-> 0]
     /\ UNCHANGED <<ringVars, tx_irq_status, rx_irq_status, napi_tx, traffic>>

\* The device completes a descriptor and sets MTK_TX_DONE_INT in the status.
qdma_hw_tx_irq ==
  /\ qdma_hw_tx_done_ring
  /\ tx_irq_status' = TRUE
  /\ nev' = NoNev
  /\ UNCHANGED <<tx_irq_mask, napi_tx, rx_irq_mask, rx_irq_status, napi_rx, traffic, auxVars>>

\* The device receives a packet and sets the receive bit in the status.
rx_hw_irq ==
  /\ traffic = "rx"
  /\ rx_hw_receive_ring
  /\ rx_irq_status' = TRUE
  /\ nev' = NoNev
  /\ UNCHANGED <<tx_irq_mask, tx_irq_status, napi_tx, rx_irq_mask, napi_rx, traffic, auxVars>>

\* mtk_napi_tx called by the softirq with budget: the status bit is cleared
\* (mtk_w32 of MTK_TX_DONE_INT) and mtk_poll_tx starts.
napi_tx_begin(budget) ==
  /\ napi_tx.pc = "idle"
  /\ napi_tx.list > 0
  /\ poll_tx_begin_ring(budget)
  /\ tx_irq_status' = FALSE
  /\ napi_tx' = [napi_tx EXCEPT !.list = @ - 1, !.pc = "poll", !.budget = budget]
  /\ nev' = NoNev
  /\ UNCHANGED <<tx_irq_mask, rx_irq_mask, rx_irq_status, napi_rx, traffic, auxVars>>

\* mtk_napi_tx from the return of mtk_poll_tx (tx_done = state.total) on.
napi_tx_end ==
  LET tx_done == ptx.total
      budget == napi_tx.budget
      c == napi_complete_done(napi_tx)
      again == tx_done = budget \/ tx_irq_status
      ret == IF again THEN budget ELSE tx_done
  IN /\ napi_tx.pc = "poll"
     /\ poll_tx_end_ring
     /\ napi_tx' = napi_poll_returns(IF again THEN napi_tx ELSE c.n, ret, budget)
     /\ tx_irq_mask' = IF ~again /\ c.ret THEN TRUE ELSE tx_irq_mask
     /\ nev' = [op |-> "napi_tx", ret |-> ret]
     /\ UNCHANGED <<tx_irq_status, rx_irq_mask, rx_irq_status, napi_rx, traffic, auxVars>>

\* mtk_napi_rx called by the softirq, and each further turn of its do-while
\* loop: the status bit is cleared and mtk_poll_rx starts with what is left of
\* the budget.
napi_rx_begin(budget) ==
  LET first == napi_rx.pc = "idle"
      b == IF first THEN budget ELSE napi_rx.budget
  IN /\ first \/ napi_rx.pc = "again"
     /\ first => napi_rx.list > 0
     /\ rx_poll_begin_ring(b - napi_rx.total)
     /\ rx_irq_status' = FALSE
     /\ napi_rx' = [napi_rx EXCEPT !.list = IF first THEN @ - 1 ELSE @, !.pc = "poll",
                                   !.budget = b]
     /\ nev' = NoNev
     /\ UNCHANGED <<tx_irq_mask, tx_irq_status, napi_tx, rx_irq_mask, traffic, auxVars>>

\* mtk_napi_rx from the return of mtk_poll_rx on.
napi_rx_end ==
  LET total == napi_rx.total + rp.done
      budget == napi_rx.budget
      c == napi_complete_done(napi_rx)
  IN /\ napi_rx.pc = "poll"
     /\ rx_poll_end_ring
     /\ IF total = budget
        THEN /\ napi_rx' = napi_poll_returns(napi_rx, budget, budget)
             /\ nev' = [op |-> "napi_rx", ret |-> budget]
             /\ UNCHANGED rx_irq_mask
        ELSE IF rx_irq_status
        THEN /\ napi_rx' = [napi_rx EXCEPT !.pc = "again", !.total = total]
             /\ nev' = NoNev
             /\ UNCHANGED rx_irq_mask
        ELSE /\ napi_rx' = napi_poll_returns(c.n, total, budget)
             /\ rx_irq_mask' = IF c.ret THEN TRUE ELSE rx_irq_mask
             /\ nev' = [op |-> "napi_rx", ret |-> total]
     /\ UNCHANGED <<tx_irq_mask, tx_irq_status, napi_tx, rx_irq_status, traffic, auxVars>>

\* Frames and packets handed to the transmit ring while the run carries
\* transmit traffic: a submission starts while fewer than MaxNapiFrames
\* descriptors have been used.
NapiSubmit ==
  /\ traffic = "tx"
  /\ \/ next_free < MaxNapiFrames /\ mtk_start_xmit(0, LinearSkb, 0, TRUE, FALSE)
     \/ next_free < MaxNapiFrames /\ xdp_submit_check(1, LinearXdp, TRUE)
     \/ xdp_submit_locked(0)

\* A receive pass of the poll task.
NapiRxPass ==
  \E mac_ok \in BOOLEAN, alloc_ok \in BOOLEAN :
    rx_poll_pass(mac_ok, alloc_ok, TRUE, "NOPROG", TRUE, TRUE)

InitNapi ==
  /\ \E t \in {"tx", "rx"} : TxInitT(TRUE, t)
  /\ RxInit(FALSE, FALSE)
  /\ ResetInit(FALSE)

NextNapi ==
  \/ NapiSubmit
  \/ qdma_hw_tx_irq
  \/ rx_hw_irq
  \/ mtk_handle_irq_tx
  \/ mtk_handle_irq_rx
  \/ mtk_poll_controller
  \/ \E budget \in 1 .. MaxBudget : napi_tx_begin(budget)
  \/ poll_tx_step
  \/ napi_tx_end
  \/ napi_rx_begin(RxBudget)
  \/ NapiRxPass
  \/ rx_poll_release
  \/ napi_rx_end
  \/ \E b \in Bufs : rx_buf_release(b)

SpecNapi == InitNapi /\ [][NextNapi]_vars

\* ---------------------------------------------------------------- C19
\* What one run of an interrupt handler did to its poll task and its interrupt
\* class: with the task already scheduled the class stays as it was and the
\* task is not queued again; with the task not scheduled the class is disabled
\* and the task is scheduled and queued once.
HandlerIdempotent(n, n2, mask, mask2) ==
  IF n.sched
  THEN mask2 = mask /\ n2.sched /\ n2.list = n.list
  ELSE ~mask2 /\ n2.sched /\ n2.list = n.list + 1

\* C19: the interrupt handlers mtk_handle_irq_tx and mtk_handle_irq_rx are
\* idempotent with respect to scheduling: when the poll task is already
\* scheduled a further interrupt neither schedules it again nor changes the
\* interrupt mask; when it is not scheduled the handler disables that interrupt
\* class and schedules the task exactly once.
C19_HandlerIdempotent ==
  [][/\ nev'.op = "irq_tx" => HandlerIdempotent(napi_tx, napi_tx', tx_irq_mask, tx_irq_mask')
     /\ nev'.op = "irq_rx" => HandlerIdempotent(napi_rx, napi_rx', rx_irq_mask, rx_irq_mask')]_vars

\* The transmit handler has just run on a task that was already scheduled (the
\* class had been enabled again by mtk_poll_controller): the interrupt is
\* remembered as missed, the class is still enabled, the task is queued once.
C19_Witness ==
  /\ nev.op = "irq_tx"
  /\ napi_tx.sched /\ napi_tx.missed
  /\ napi_tx.list = 1
  /\ tx_irq_mask
  /\ tx_irq_status

\* ---------------------------------------------------------------- C20
\* The step in which mtk_napi_tx returns (mtk_poll_tx has run to its end).
NapiTxReturns == napi_tx.pc = "poll" /\ nev'.op = "napi_tx"

\* The step in which mtk_napi_rx returns.
NapiRxReturns == napi_rx.pc = "poll" /\ nev'.op = "napi_rx"

\* The budget of the transmit poll is used up: mtk_poll_tx_qdma/_pdma left
\* the loop with budget == 0.
TxBudgetExhausted == ptx.budget = 0

\* C20: a poll run (mtk_napi_tx, mtk_napi_rx) re-enables its interrupt class
\* only when it consumed less than the budget and the completion-status
\* register, read again after draining, shows no pending completion; when the
\* budget is exhausted or the status register still shows pending work the
\* transmit poll returns the full budget and does not re-enable the interrupt.
C20_ReenableOnlyWhenDrained ==
  [][/\ NapiTxReturns =>
          /\ (~tx_irq_mask /\ tx_irq_mask') => (~TxBudgetExhausted /\ ~tx_irq_status)
          /\ (TxBudgetExhausted \/ tx_irq_status) =>
                (nev'.ret = napi_tx.budget /\ tx_irq_mask' = tx_irq_mask)
     /\ NapiRxReturns =>
          ((~rx_irq_mask /\ rx_irq_mask') =>
              (napi_rx.total + rp.done < napi_rx.budget /\ ~rx_irq_status))]_vars

\* ================================================================== write ordering
\* Descriptor writes, the write barrier and the doorbell registers.  mtk_w32 is
\* __raw_writel, which orders nothing by itself: a descriptor write reaches the
\* device before a later register write only when a wmb() lies between them.

\* The slots of a ring of n slots from a up to (not including) b.
RingInterval(a, b, n) == {s \in 0 .. (n - 1) : (s - a + n) % n < (b - a + n) % n}

\* The transmit descriptors the device may fetch once the CPU pointer register
\* (qdma.ctx_ptr, MT7628_TX_CTX_IDX0) holds c.
TxCovered(c) ==
  RingInterval(IF qdma THEN NextSlot(drx_ptr) ELSE tx_dtx_idx0, c, RingSize)

\* The receive descriptors the device may fill once the CPU index register holds c.
RxCovered(c) == RingInterval(rx_drx, c, RxRingSize)

\* mutant: the barrier left out
wmb_missing(pend) == pend

\* wmb(): every write made before it is visible before any write made after it
wmb(pend) == {}

\* mtk_tx_map inside mtk_start_xmit: descriptor writes, wmb, CPU pointer.
order_start_xmit(d, skb, failAt, kick, cow_fail) ==
  LET tx_num == mtk_cal_txd_req(skb)
      st == mtk_tx_map(d, skb, failAt)
      walked == ~resetting /\ free_count > tx_num /\ ~(skb.gso /\ cow_fail)
      queued == walked /\ ~st.err
      p1 == mo.tx_pend \cup (IF walked THEN st.wr ELSE {})
      p2 == IF queued THEN wmb(p1) ELSE p1
      db == queued /\ (qdma => kick)
  IN /\ mtk_start_xmit_ring(d, skb, failAt, kick, cow_fail)
     /\ UNCHANGED auxButMo
     /\ mo' = [mo EXCEPT !.tx_pend = p2,
                         !.handed = IF db
                                    THEN {<<"tx", s>> : s \in p1 \cap TxCovered(NextSlot(st.cur))}
                                    ELSE {},
                         !.exposed = IF db
                                     THEN {<<"tx", s>> : s \in p2 \cap TxCovered(NextSlot(st.cur))}
                                     ELSE {}]

\* mtk_xdp_submit_frame under the lock: descriptor writes, wmb, CPU pointer.
order_xdp_submit_locked(failAt) ==
  LET st == xdp_submit_walk(xs.dev, xs.xdpf, xs.dma_map, failAt)
      p1 == mo.tx_pend \cup st.wr
      p2 == IF st.err THEN p1 ELSE wmb(p1)
  IN /\ xdp_submit_locked_ring(failAt)
     /\ UNCHANGED auxButMo
     /\ mo' = [mo EXCEPT !.tx_pend = p2,
                         !.handed = IF st.err THEN {}
                                    ELSE {<<"tx", s>> : s \in p1 \cap TxCovered(NextSlot(st.cur))},
                         !.exposed = IF st.err THEN {}
                                     ELSE {<<"tx", s>> : s \in p2 \cap TxCovered(NextSlot(st.cur))}]

\* A pass of mtk_poll_rx: with XDP_TX, mtk_xdp_submit_frame runs in the poll
\* context, and its wmb also covers the receive descriptors written so far.
order_rx_pass(mac_ok, alloc_ok, act) ==
  LET idx == NextRx(calc_idx)
      runs_tx == /\ mac_ok /\ ~resetting /\ page_pool /\ alloc_ok /\ FreeBufs # {}
                 /\ act = "XDP_TX"
      st == xdp_submit_walk(0, [len |-> 1, frags |-> <<>>, page |-> rx_data[idx]], FALSE, 0)
      walked == runs_tx /\ free_count > 1
      queued == walked /\ ~st.err
      p1 == mo.tx_pend \cup (IF walked THEN st.wr ELSE {})
      p2 == IF queued THEN wmb(p1) ELSE p1
  IN /\ rx_poll_pass_ring(mac_ok, alloc_ok, TRUE, act, TRUE, TRUE)
     /\ UNCHANGED auxButMo
     /\ mo' = [mo EXCEPT !.tx_pend = p2,
                         !.rx_pend = IF queued THEN wmb(@) ELSE @,
                         !.handed = IF queued
                                    THEN {<<"tx", s>> : s \in p1 \cap TxCovered(NextSlot(st.cur))}
                                    ELSE {},
                         !.exposed = IF queued
                                     THEN {<<"tx", s>> : s \in p2 \cap TxCovered(NextSlot(st.cur))}
                                     ELSE {}]

\* skip_rx / release_desc: rxd1 and rxd2 of the slot are written.
order_rx_release ==
  /\ rx_poll_release_ring
  /\ UNCHANGED auxButMo
  /\ mo' = [mo EXCEPT !.rx_pend = @ \cup {NextRx(calc_idx)}, !.handed = {},
                      !.exposed = {}]

\* rx_done: if (done) { wmb(); mtk_update_rx_cpu_idx(eth); }
order_rx_end ==
  LET p == IF rp.done > 0 THEN wmb(mo.rx_pend) ELSE mo.rx_pend
  IN /\ rx_poll_end_ring
     /\ UNCHANGED auxButMo
     /\ mo' = [mo EXCEPT !.rx_pend = p,
                         !.handed = IF rp.done > 0
                                    THEN {<<"rx", s>> : s \in mo.rx_pend \cap RxCovered(calc_idx)}
                                    ELSE {},
                         !.exposed = IF rp.done > 0
                                     THEN {<<"rx", s>> : s \in p \cap RxCovered(calc_idx)}
                                     ELSE {}]
     /\ UNCHANGED napiVars

\* mtk_dma_init on rings at rest: mtk_tx_alloc writes every transmit
\* descriptor, wmb, the pointer registers; mtk_rx_alloc writes every receive
\* descriptor, wmb, the ring registers and the CPU index.
order_dma_init ==
  LET tp == wmb(mo.tx_pend \cup Slots)
      rp2 == wmb(mo.rx_pend \cup RxSlots)
  IN /\ ptx.pc = "idle" /\ rp.pc = "idle" /\ xs.pc = "idle"
     /\ \A b \in Bufs : buf_owner[b] \in {"ring", "free"}
     /\ next_free # 0 \/ calc_idx # RxRingSize - 1
     /\ mtk_dma_init
     /\ UNCHANGED auxButMo
     /\ mo' = [tx_pend |-> tp, rx_pend |-> rp2, handed |-> {},
               exposed |-> {<<"tx", s>> : s \in tp \cap RingInterval(0, 0, RingSize)}
                           \cup {<<"rx", s>> : s \in rp2 \cap RingInterval(0, RxRingSize - 1,
                                                                        RxRingSize)}]
     /\ ev' = NoEv
     /\ ghost' = NoGhost
     /\ rev' = NoRev
     /\ queue_stopped' = [d \in Devs |-> FALSE]
     /\ UNCHANGED <<qdma, ptx, xs, lockVars, page_pool, dma36, rp, resetVars, napiVars>>

\* The steps that write no descriptor and no doorbell leave the ghost as it is
\* but for the record of the last step.
OrderQuiet(A) ==
  /\ A
  /\ mo' = [mo EXCEPT !.handed = {}, !.exposed = {}]
  /\ UNCHANGED auxButMo

\* Submissions start while fewer than MaxOrderSlots descriptors have been used
\* since the rings were set up.
OrderTx ==
  /\ traffic = "tx"
  /\ \/ /\ next_free < MaxOrderSlots
        /\ \E skb \in {LinearSkb, FragSkb} : \E f \in SkbFailAts(skb), kick \in BOOLEAN :
             order_start_xmit(0, skb, f, kick, FALSE)
     \/ next_free < MaxOrderSlots /\ OrderQuiet(xdp_submit_check_ring(1, LinearXdp, TRUE))
     \/ \E f \in 0 .. 1 : order_xdp_submit_locked(f)

OrderRx ==
  /\ traffic = "rx"
  /\ \/ OrderQuiet(rx_poll_begin_ring(RxBudget) /\ UNCHANGED napiVars)
     \/ \E mac_ok \in BOOLEAN, alloc_ok \in BOOLEAN, act \in {"NOPROG", "XDP_TX"} :
          order_rx_pass(mac_ok, alloc_ok, act)
     \/ order_rx_release
     \/ order_rx_end
     \/ OrderQuiet(rx_hw_receive_ring /\ UNCHANGED napiVars)
     \/ \E b \in Bufs : OrderQuiet(rx_buf_release_ring(b))

OrderReclaim ==
  \/ OrderQuiet(qdma_hw_tx_done_ring /\ UNCHANGED napiVars)
  \/ OrderQuiet(pdma_hw_tx_done_ring)
  \/ \E budget \in 1 .. MaxBudget : OrderQuiet(poll_tx_begin_ring(budget) /\ UNCHANGED napiVars)
  \/ OrderQuiet(poll_tx_step_ring)
  \/ OrderQuiet(poll_tx_end_ring /\ UNCHANGED napiVars)

\* Either backend under transmit traffic; the QDMA backend with a page pool
\* under receive traffic.
InitOrder ==
  /\ \/ \E caps_qdma \in BOOLEAN : TxInitT(caps_qdma, "tx") /\ RxInit(FALSE, FALSE)
     \/ TxInitT(TRUE, "rx") /\ RxInit(TRUE, FALSE)
  /\ ResetInit(FALSE)

NextOrder ==
  \/ OrderTx
  \/ OrderRx
  \/ OrderReclaim
  \/ order_dma_init

SpecOrder == InitOrder /\ [][NextOrder]_vars

\* C21: every descriptor a doorbell write hands to the device was made visible
\* by a write barrier first: in a packet submission, an XDP frame submission
\* and a receive poll the descriptor writes come before the barrier and the
\* barrier before the CPU pointer or index register write, and the ring
\* set-up puts a barrier between its descriptor writes and its register
\* writes, so no register write exposes a descriptor still being written.
C21_BarrierBeforeDoorbell == mo.exposed = {}

\* A receive poll that released descriptors and then wrote the CPU index
\* register, which hands one of them to the device.
C21_Witness == \E s \in RxSlots : <<"rx", s>> \in mo.handed

\* A submission whose CPU pointer write hands over the descriptors of two
\* submissions, the earlier one made with the doorbell deferred.
C21_WitnessDeferred ==
  /\ qdma
  /\ \E s, t \in Slots : s # t /\ {<<"tx", s>>, <<"tx", t>>} \subseteq mo.handed

\* ================================================================== escalation
\* The periodic hang check, the watchdog, the reset work and the transmit poll
\* task side by side.  napi_disable in mtk_stop waits for a running poll, and
\* the poll task runs while the rings are up.
EscalatePoll ==
  /\ dma_up
  /\ \/ next_free < 1 /\ netif_up[0] /\ mtk_start_xmit(0, LinearSkb, 0, TRUE, FALSE)
     \/ qdma_hw_tx_done
     \/ PollTxBegin
     \/ poll_tx_step
     \/ poll_tx_end

\* The periodic work with the QDMA signature held or not.
NextEscalate ==
  \/ \E qdma_stall \in BOOLEAN : mtk_hw_reset_monitor_work(0, FALSE, qdma_stall, FALSE)
  \/ \E d \in Devs, check \in BOOLEAN : mtk_tx_timeout(d, check)
  \/ pw_begin
  \/ ptx.pc = "idle" /\ pw_stop_step
  \/ pw_hw_init
  \/ pw_restart_step("ok")
  \/ pw_end
  \/ EscalatePoll

SpecEscalate == Init /\ [][NextEscalate]_vars

\* A hang check was made in this step / it declared a hang.
HangChecked == hist' # hist
HangDeclared == HangChecked /\ hist'[Len(hist')].ret

\* C22: a detected hang is escalated to the reset work exactly once: the
\* periodic work queues the reset work when its check declares a hang; while
\* the resetting flag is set no check is made, no counter moves and no reset
\* is queued; a run of the reset work takes the one queued request; and the
\* poll task neither queues nor starts a reset.
C22_EscalatedOnce ==
  [][/\ HangDeclared => pending_queued'
     /\ HangChecked => ~resetting
     /\ resetting => UNCHANGED hangVars
     /\ (pw.pc = "idle" /\ pw'.pc # "idle") => (pending_queued /\ ~pending_queued')
     /\ (ptx' # ptx) => UNCHANGED <<pending_queued, resetting, pw, hist>>]_vars

\* The reset work runs after a check declared a hang, and the periodic work can
\* still come in.
C22_Witness ==
  /\ resetting
  /\ pw.pc = "restart"
  /\ Len(hist) > 0 /\ hist[Len(hist)].ret
  /\ Len(hist) < MaxChecks

\* ------------------------------------------------------------------ claims: invalid verdict
\* The step of mtk_poll_rx whose mtk_xdp_run returned a value that is no verdict.
InvalidVerdictStep == XdpRunStep /\ rev'.out = "INVALID"

\* C23: an invalid verdict is treated as drop: mtk_xdp_run gives the buffer of
\* the slot back to the pool, increments rx_xdp_drop by one and no other
\* counter, and mtk_poll_rx hands no buffer to the stack or to the transmit
\* ring in that pass; the slot gets the replacement buffer.
C23_InvalidIsDrop ==
  [][InvalidVerdictStep =>
       LET idx == NextRx(calc_idx)
           old == rx_data[idx]
       IN /\ buf_owner'[old] = "free"
          /\ rev'.disp = 1
          /\ rev'.stats = [c \in XdpCounters |-> IF c = "rx_xdp_drop" THEN 1 ELSE 0]
          /\ \A b \in Bufs : buf_owner'[b] \in {"out", "txring"} => buf_owner'[b] = buf_owner[b]
          /\ rx_data'[idx] # old
          /\ UNCHANGED txRingVars]_vars

\* An invalid verdict in the second pass of a poll.
C23_Witness ==
  /\ rp.pc = "release"
  /\ rp.done = 1
  /\ rev.out = "INVALID"
  /\ rev.prog

\* ------------------------------------------------------------------ claims: scenario A
\* The first pass of a reclaim that finds one linear packet on the ring, given
\* back by the device.
ReclaimOfSinglePacket ==
  /\ ReclaimStep
  /\ ptx.total = 0 /\ ptx.cpu = last_free_ptr
  /\ \E s \in Slots : SlotsInUse = {s} /\ tx_buf[s].data = "SKB"

\* C24: scenario A.  A ring of depth 256 starts with 254 free slots, and the
\* ring of the model with RingSize - 2 whenever it is empty; one linear packet
\* submitted on the empty ring takes exactly one descriptor and leaves one
\* free slot less; the reclaim that finds that packet completed counts 1,
\* ends with it (so mtk_poll_tx returns 1) and brings the free-slot count back
\* to the value of the empty ring.
C24_ScenarioA ==
  /\ tx_alloc_free_count(256) = 254
  /\ tx_alloc_free_count(256) - mtk_cal_txd_req(LinearSkb) = 253
  /\ [](SlotsInUse = {} => free_count = RingSize - 2)
  /\ [][/\ (SlotsInUse = {} /\ ev'.op = "start_xmit" /\ ev'.skb = "queued" /\ ev'.req = 1) =>
            /\ ev'.taken = 1
            /\ Cardinality(SlotsInUse') = 1
            /\ free_count' = RingSize - 3
        /\ ReclaimOfSinglePacket =>
            /\ ptx'.total = 1
            /\ SlotsInUse' = {}
            /\ free_count = RingSize - 3 /\ free_count' = RingSize - 2
            /\ ~poll_tx_continues']_vars

\* The reclaim has counted the one packet submitted since bring-up and the
\* ring is empty again.
C24_Witness ==
  /\ ptx.pc = "loop" /\ ptx.total = 1
  /\ next_free = 1
  /\ SlotsInUse = {}
  /\ free_count = RingSize - 2

\* ================================================================== descriptor chains
\* mtk_tx_map on the ring as mtk_tx_alloc left it, for packets of up to
\* MaxChainFrags fragments, with the device completing and reclaim emptying
\* the ring.  At the driver's ring depths the test of mtk_start_xmit
\* (free_count > tx_num) passes on the empty ring for every packet of the run,
\* so mtk_tx_map is entered.
ChainFragSeqs == UNION {[1 .. n -> 1 .. MaxFragSize] : n \in 0 .. MaxChainFrags}
ChainSkbs == [headlen : {1}, frags : ChainFragSeqs, gso : {FALSE}]

\* Every fragment of the packet fits one descriptor.
FragsWithinMaxLen(skb) == \A i \in 1 .. Len(skb.frags) : skb.frags[i] <= DmaMaxLen

tx_map_empty(skb, failAt) ==
  LET tx_num == mtk_cal_txd_req(skb)
      st == mtk_tx_map(0, skb, failAt)
      e == [op |-> "tx_map", ret |-> "OK", taken |-> 0, req |-> tx_num,
            fail |-> FALSE, unwound |-> FALSE, skb |-> "freed"]
  IN /\ SlotsInUse = {}
     /\ next_free = 0
     /\ ptx.pc = "idle"
     /\ StoreRing(st)
     /\ IF st.err
        THEN /\ ev' = [e EXCEPT !.ret = "ENOMEM", !.unwound = st.unwound, !.fail = TRUE]
             /\ UNCHANGED <<next_free, free_count, ctx_ptr, tx_ctx_idx0>>
        ELSE /\ next_free' = NextSlot(st.cur)
             /\ free_count' = free_count - st.n
             /\ IF qdma
                THEN ctx_ptr' = NextSlot(st.cur) /\ UNCHANGED tx_ctx_idx0
                ELSE tx_ctx_idx0' = NextSlot(st.cur) /\ UNCHANGED ctx_ptr
             /\ ev' = [e EXCEPT !.taken = st.n, !.skb = "queued"]
     /\ UNCHANGED <<qdma, last_free, last_free_ptr, cpu_idx, drx_ptr, tx_dtx_idx0, ptx,
                    queue_stopped, xs, lockVars, rxVars, resetVars, napiVars, auxVars>>

\* The inner loop of mtk_tx_map applied to one fragment of frag_size size.
frag_split(max_len, size) ==
  /\ split' = [max_len |-> max_len, size |-> size,
               chunks |-> [j \in 1 .. Len(FragChunksOf(0, size, 1, max_len)) |->
                             FragChunksOf(0, size, 1, max_len)[j].size]]
  /\ UNCHANGED <<txVars, rxVars, resetVars, napiVars, mo, fl, lro, bql, codec, xm, sd>>

NextChain ==
  \/ \E skb \in ChainSkbs : \E f \in 0 .. 1 : tx_map_empty(skb, f)
  \/ \E max_len \in 1 .. MaxSplitLen : \E size \in 1 .. (3 * max_len) :
       split = NoSplit /\ frag_split(max_len, size)
  \/ qdma_hw_tx_done
  \/ pdma_hw_tx_done
  \/ PollTxBegin
  \/ poll_tx_step
  \/ poll_tx_end

SpecChain == InitShared /\ [][NextChain]_vars

\* The descriptors a submission that moved next_free has taken.
ChainSlots == RingInterval(next_free, next_free', RingSize)

\* C25: scenario B.  On the QDMA ring a packet with a linear part and n
\* fragments, each within dma_max_len, takes 1 + n descriptors (4 for three
\* fragments: the head and one per fragment), all handed to the device, and
\* of every chain queued exactly the final descriptor carries the
\* last-segment flag.
C25_ChainLastFlag ==
  [][\A skb \in ChainSkbs :
       (qdma /\ tx_map_empty(skb, 0) /\ ev'.skb = "queued") =>
         /\ Cardinality(ChainSlots) = ev'.taken
         /\ FragsWithinMaxLen(skb) => ev'.taken = 1 + Len(skb.frags)
         /\ \A s \in ChainSlots :
              /\ ~txd'[s].own
              /\ txd'[s].ls0 <=> (NextSlot(s) = next_free')]_vars

\* The statement as written: three fragments, three descriptors.
C25_AsStated ==
  [][\A skb \in ChainSkbs :
       (qdma /\ tx_map_empty(skb, 0) /\ ev'.skb = "queued"
          /\ Len(skb.frags) = 3 /\ FragsWithinMaxLen(skb)) =>
         ev'.taken = 3]_vars

\* A chain of four descriptors on the QDMA ring: three without the
\* last-segment flag, then one with it.
C25_Witness ==
  /\ qdma
  /\ ev.op = "tx_map" /\ ev.skb = "queued" /\ ev.req = 4 /\ ev.taken = 4
  /\ \E s \in Slots :
       /\ ~txd[s].ls0 /\ ~txd[NextSlot(s)].ls0 /\ ~txd[NextSlot(NextSlot(s))].ls0
       /\ txd[NextSlot(NextSlot(NextSlot(s)))].ls0
       /\ NextSlot(NextSlot(NextSlot(NextSlot(s)))) = next_free

\* ------------------------------------------------------------------ claims: scenario C
RECURSIVE SeqSum(_)
SeqSum(q) == IF q = <<>> THEN 0 ELSE Head(q) + SeqSum(Tail(q))

\* The descriptor lengths of a fragment of size s split by max_len: as many as
\* ceil(s / max_len), none above max_len, all but the last equal to max_len,
\* and together s.
SplitOk(max_len, s, ch) ==
  /\ Len(ch) = DivRoundUp(s, max_len)
  /\ SeqSum(ch) = s
  /\ \A j \in 1 .. Len(ch) : ch[j] >= 1 /\ ch[j] <= max_len
  /\ \A j \in 1 .. (Len(ch) - 1) : ch[j] = max_len

\* The chain of a queued submission in ring order, as descriptor lengths.
RECURSIVE ChainLens(_, _)
ChainLens(s, stop) ==
  IF s = stop THEN <<>> ELSE <<txd'[s].plen>> \o ChainLens(NextSlot(s), stop)

\* C26: scenario C.  A fragment of size s is split into ceil(s / max_len)
\* descriptors whose lengths sum to s, none above max_len; a fragment of 1.5
\* times max_len gets two, the first of max_len and the second the rest.  On
\* the ring each fragment of a queued packet occupies that many descriptors
\* after the head, with those lengths.
C26_FragmentSplit ==
  /\ [](split # NoSplit =>
          /\ SplitOk(split.max_len, split.size, split.chunks)
          /\ (2 * split.size = 3 * split.max_len) =>
                split.chunks = <<split.max_len, split.size - split.max_len>>)
  /\ [][\A skb \in ChainSkbs :
          (qdma /\ tx_map_empty(skb, 0) /\ ev'.skb = "queued") =>
            /\ ev'.taken = 1 + GsoFrags(skb.frags, 1)
            /\ SeqSum(ChainLens(next_free, next_free')) = skb.headlen + SeqSum(skb.frags)
            /\ \A s \in ChainSlots : txd'[s].plen <= DmaMaxLen]_vars

\* A fragment of 1.5 times the maximum length, split in two.
C26_Witness ==
  /\ split.max_len = 2 /\ split.size = 3
  /\ split.chunks = <<2, 1>>

\* ================================================================== deferred flush
\* One call of mtk_poll_rx with its local xdp_flush, the verdict counters summed
\* over the call and the calls of xdp_do_flush.

\* mutant: xdp_flush that remembers the last verdict only
poll_rx_xdp_flush_last_only(flag, ret) == ret = "XDP_REDIRECT"

\* if (ret == XDP_REDIRECT) xdp_flush = true;
poll_rx_xdp_flush(flag, ret) == flag \/ ret = "XDP_REDIRECT"

flush_poll_begin == rx_poll_begin_ring(RxBudget) /\ fl' = NoFl

flush_poll_pass(act, ok) ==
  /\ rx_poll_pass_ring(TRUE, TRUE, TRUE, act, ok, TRUE)
  /\ fl' = [fl EXCEPT !.xdp_flush = poll_rx_xdp_flush(@, rev'.out),
                      !.runs = @ + 1,
                      !.stats = [c \in XdpCounters |-> @[c] + rev'.stats[c]]]

\* rx_done: ...; if (xdp_flush) xdp_do_flush(); return done
flush_poll_end ==
  /\ rx_poll_end_ring
  /\ fl' = [fl EXCEPT !.flushes = IF fl.xdp_flush THEN @ + 1 ELSE @]

NextFlush ==
  \/ (flush_poll_begin /\ UNCHANGED <<napiVars, auxButFl>>)
  \/ \E act \in {"XDP_REDIRECT", "XDP_PASS", "XDP_DROP", "XDP_TX"}, ok \in BOOLEAN :
       flush_poll_pass(act, ok) /\ UNCHANGED auxButFl
  \/ (rx_poll_release_ring /\ UNCHANGED auxVars)
  \/ (flush_poll_end /\ UNCHANGED <<napiVars, auxButFl>>)
  \/ (rx_hw_receive_ring /\ UNCHANGED <<napiVars, auxVars>>)
  \/ \E b \in Bufs : rx_buf_release_ring(b) /\ UNCHANGED auxVars

SpecFlush == InitRxXdp /\ [][NextFlush]_vars

\* C27: scenario D.  In a call of mtk_poll_rx whose completions all get the
\* verdict Redirect (and are redirected), the redirect counter grows by the
\* number of completions and the pass, drop, tx and tx-error counters by 0;
\* xdp_do_flush is not called while the loop runs and is called exactly once
\* when the call ends, after the last completion.  In general it is called
\* once at the end of a call that redirected a frame and never otherwise.
C27_FlushOncePerPoll ==
  /\ [](rp.pc # "idle" => fl.flushes = 0)
  /\ [](rp.pc = "idle" =>
          /\ fl.flushes = IF fl.stats["rx_xdp_redirect"] > 0 THEN 1 ELSE 0
          /\ (fl.runs > 0 /\ fl.stats["rx_xdp_redirect"] = fl.runs) =>
                /\ fl.flushes = 1
                /\ \A c \in XdpCounters \ {"rx_xdp_redirect"} : fl.stats[c] = 0)
  /\ [][fl'.flushes > fl.flushes => (rp.pc = "loop" /\ rp'.pc = "idle")]_vars

\* A call that used its whole budget on redirected frames has ended.
C27_Witness ==
  /\ rp.pc = "idle"
  /\ fl.runs = RxBudget
  /\ fl.stats["rx_xdp_redirect"] = RxBudget
  /\ fl.flushes = 1

\* ================================================================== hardware LRO rings
\* mtk_poll_rx with eth->hwlro set: each pass asks mtk_get_rx_ring for a ring,
\* and mtk_update_rx_cpu_idx writes the CPU index registers at the end.

\* NEXT_DESP_IDX on a ring of hardware LRO
LroNext(i) == (i + 1) % LroRingSize

\* rxd->rxd2 & RX_DMA_DONE of the descriptor after calc_idx of ring r: the device
\* has filled it and the poll has not released it.
LroHeadDone(l, r) == LroNext(l.calc_idx[r]) # l.drx[r]

\* The for loop of mtk_get_rx_ring from ring i on: the ring returned, -1 for NULL.
RECURSIVE LroScanFrom(_, _)
LroScanFrom(l, i) ==
  IF i >= NumLroRings THEN -1
  ELSE IF LroHeadDone(l, i) THEN i
  ELSE LroScanFrom(l, i + 1)

\* mtk_get_rx_ring: the ring returned and the rings as the call leaves them
mtk_get_rx_ring(l) ==
  LET r == LroScanFrom(l, 0)
  IN [ring |-> r,
      l |-> IF r = -1 THEN l ELSE [l EXCEPT !.calc_idx_update[r] = TRUE]]

\* mutant: the CPU index register of every ring written, marked or not
mtk_update_rx_cpu_idx_every_ring(l) ==
  [l EXCEPT !.crx_idx = l.calc_idx,
            !.calc_idx_update = [r \in LroRings |-> FALSE],
            !.writes = [r \in LroRings |-> l.writes[r] + 1]]

\* mtk_update_rx_cpu_idx
mtk_update_rx_cpu_idx(l) ==
  [l EXCEPT !.crx_idx = [r \in LroRings |->
                           IF l.calc_idx_update[r] THEN l.calc_idx[r] ELSE l.crx_idx[r]],
            !.calc_idx_update = [r \in LroRings |-> FALSE],
            !.writes = [r \in LroRings |->
                          IF l.calc_idx_update[r] THEN l.writes[r] + 1 ELSE l.writes[r]]]

lroRest == <<txVars, rxVars, resetVars, napiVars, auxButLro>>

\* The device completes the next descriptor of ring r the CPU index lets it use.
lro_hw_receive(r) ==
  /\ lro.drx[r] # lro.crx_idx[r]
  /\ lro' = [lro EXCEPT !.drx[r] = LroNext(@)]
  /\ UNCHANGED lroRest

lro_poll_begin ==
  /\ lro.pc = "idle"
  /\ lro' = [lro EXCEPT !.pc = "loop", !.done = 0, !.polled = {},
                        !.writes = [r \in LroRings |-> 0]]
  /\ UNCHANGED lroRest

\* One pass of the while loop: the ring is chosen, its descriptor is handled
\* and released (ring->calc_idx = idx; done++).
lro_poll_pass ==
  LET g == mtk_get_rx_ring(lro)
      r == g.ring
  IN /\ lro.pc = "loop"
     /\ lro.done < LroBudget
     /\ r # -1
     /\ lro' = [g.l EXCEPT !.calc_idx[r] = LroNext(@), !.done = @ + 1,
                           !.polled = @ \cup {r}]
     /\ UNCHANGED lroRest

\* The loop is left with the budget used up or with no ring ready (goto
\* rx_done); if (done) { wmb(); mtk_update_rx_cpu_idx(eth); }
lro_poll_end ==
  /\ lro.pc = "loop"
  /\ lro.done >= LroBudget \/ mtk_get_rx_ring(lro).ring = -1
  /\ lro' = [(IF lro.done > 0 THEN mtk_update_rx_cpu_idx(lro) ELSE lro)
               EXCEPT !.pc = "idle"]
  /\ UNCHANGED lroRest

NextLro ==
  \/ \E r \in LroRings : lro_hw_receive(r)
  \/ lro_poll_begin
  \/ lro_poll_pass
  \/ lro_poll_end

SpecLro == Init /\ [][NextLro]_vars

\* The rings whose next descriptor is marked done.
LroReady == {r \in LroRings : LroHeadDone(lro, r)}

\* C28: with hardware LRO, mtk_get_rx_ring returns the lowest-indexed ring
\* whose next descriptor is done and marks it, and no ring when none is
\* ready; mtk_update_rx_cpu_idx at the end of the pass writes the CPU index
\* register of exactly the marked rings, with their calc_idx, and clears the
\* marks, so that every ring polled in a call gets its register written once,
\* at the end of that call, and no other ring is written.
C28_LroDoorbells ==
  /\ [](/\ mtk_get_rx_ring(lro).ring = (IF LroReady = {} THEN -1
                                         ELSE CHOOSE r \in LroReady : \A q \in LroReady : r <= q)
        /\ lro.pc = "loop" =>
             /\ {r \in LroRings : lro.calc_idx_update[r]} = lro.polled
             /\ \A r \in LroRings : lro.writes[r] = 0
        /\ lro.pc = "idle" =>
             /\ \A r \in LroRings : ~lro.calc_idx_update[r]
             /\ \A r \in LroRings : lro.writes[r] = (IF r \in lro.polled THEN 1 ELSE 0)
             /\ \A r \in lro.polled : lro.crx_idx[r] = lro.calc_idx[r])
  /\ [][/\ lro'.done > lro.done =>
            /\ mtk_get_rx_ring(lro).ring \in LroReady
            /\ lro'.calc_idx_update[mtk_get_rx_ring(lro).ring]
            /\ lro'.polled = lro.polled \cup {mtk_get_rx_ring(lro).ring}
            /\ lro'.crx_idx = lro.crx_idx
        /\ \A r \in LroRings :
             lro'.crx_idx[r] # lro.crx_idx[r] =>
               /\ lro.pc = "loop" /\ lro'.pc = "idle"
               /\ lro.calc_idx_update[r]
               /\ lro'.crx_idx[r] = lro.calc_idx[r]]_vars

\* A call that polled two rings and left the third alone has ended.
C28_Witness ==
  /\ lro.pc = "idle"
  /\ Cardinality(lro.polled) = 2
  /\ 0 \notin lro.polled
  /\ lro.writes[0] = 0
  /\ \A r \in lro.polled : lro.writes[r] = 1

\* ======================================================= queue completion accounting
\* mtk_poll_tx hands the skbs it releases to netdev_tx_completed_queue, grouped
\* by transmit queue in struct mtk_poll_state.

\* mutant: the run that ends is not handed over when the queue changes
mtk_poll_tx_done_drops_run(st, txq, bytes) ==
  IF st.txq = txq
  THEN [st EXCEPT !.done = @ + 1, !.bytes = @ + bytes]
  ELSE [st EXCEPT !.txq = txq, !.done = 1, !.bytes = bytes]

\* mtk_poll_tx_done from the queue look-up on (state->total is kept in ptx)
mtk_poll_tx_done(st, txq, bytes) ==
  IF st.txq = txq
  THEN [st EXCEPT !.done = @ + 1, !.bytes = @ + bytes]
  ELSE [st EXCEPT !.calls = IF st.txq # NoTxq
                            THEN Append(@, [txq |-> st.txq, done |-> st.done,
                                            bytes |-> st.bytes])
                            ELSE @,
                  !.txq = txq, !.done = 1, !.bytes = bytes]

\* The ghosts of a finished call are dropped by the next step of anything else.
BqlQuiet(b) == IF ptx.pc = "idle" THEN [b EXCEPT !.calls = <<>>, !.rel = <<>>] ELSE b

\* mtk_start_xmit of device d with an skb mapped to queue q
bql_start_xmit(d, skb, q) ==
  LET new == RingInterval(next_free, next_free', RingSize)
      at == CHOOSE s \in new : tx_buf'[s].data = "SKB"
  IN /\ next_free < MaxBqlSlots
     /\ mtk_start_xmit_ring(d, skb, 0, TRUE, FALSE)
     /\ bql' = IF ev'.skb = "queued"
               THEN [BqlQuiet(bql) EXCEPT
                       !.skbq[at] = [q |-> q, len |-> skb.headlen + SeqSum(skb.frags)]]
               ELSE BqlQuiet(bql)
     /\ UNCHANGED auxButBql

\* An XDP frame on the same ring: no transmit queue accounts for it.
bql_xdp_check ==
  /\ next_free < MaxBqlXdp
  /\ xdp_submit_check_ring(0, [len |-> 1, frags |-> <<>>, page |-> -1], TRUE)
  /\ bql' = BqlQuiet(bql)
  /\ UNCHANGED auxButBql

bql_xdp_locked ==
  /\ xdp_submit_locked_ring(0)
  /\ bql' = BqlQuiet(bql)
  /\ UNCHANGED auxButBql

bql_hw_tx_done ==
  /\ \/ qdma_hw_tx_done_ring /\ UNCHANGED napiVars
     \/ pdma_hw_tx_done_ring
  /\ bql' = BqlQuiet(bql)
  /\ UNCHANGED auxButBql

\* struct mtk_poll_state state = {}
bql_poll_begin ==
  /\ poll_tx_begin_ring(BqlBudget)
  /\ bql' = [bql EXCEPT !.txq = NoTxq, !.done = 0, !.bytes = 0, !.calls = <<>>,
                        !.rel = <<>>]
  /\ UNCHANGED <<napiVars, auxButBql>>

\* One pass of the reclaim loop; mtk_poll_tx_qdma hands tx_buf->mac_id to
\* mtk_poll_tx_done, mtk_poll_tx_pdma hands 0.
bql_poll_step ==
  LET s == poll_tx_slot
      b == tx_buf[s]
      k == bql.skbq[s]
      mac == IF qdma THEN b.mac_id ELSE 0
      st == [bql EXCEPT !.skbq[s] = [q |-> 0, len |-> 0]]
  IN /\ poll_tx_step_ring
     /\ bql' = IF b.data # "DUMMY" /\ b.type = "SKB"
               THEN [mtk_poll_tx_done(st, <<mac, k.q>>, k.len) EXCEPT
                       !.rel = Append(@, [txq |-> <<b.mac_id, k.q>>, bytes |-> k.len])]
               ELSE st
     /\ UNCHANGED auxButBql

\* if (state.txq) netdev_tx_completed_queue(state.txq, state.done, state.bytes)
bql_poll_end ==
  /\ poll_tx_end_ring
  /\ bql' = [bql EXCEPT !.calls = IF bql.txq # NoTxq
                                  THEN Append(@, [txq |-> bql.txq, done |-> bql.done,
                                                  bytes |-> bql.bytes])
                                  ELSE @,
                        !.txq = NoTxq, !.done = 0, !.bytes = 0]
  /\ UNCHANGED <<napiVars, auxButBql>>

NextBql ==
  \/ \E d \in (IF qdma THEN Devs ELSE {0}), q \in 0 .. (NumTxQueues - 1) :
       bql_start_xmit(d, LinearSkb, q)
  \/ bql_start_xmit(0, FragSkb, 0)
  \/ bql_xdp_check
  \/ bql_xdp_locked
  \/ bql_hw_tx_done
  \/ bql_poll_begin
  \/ bql_poll_step
  \/ bql_poll_end

SpecBql == InitShared /\ [][NextBql]_vars

\* The maximal runs of consecutive released skbs of one queue, in order.
RunStarts(r) == {i \in 1 .. Len(r) : i = 1 \/ r[i].txq # r[i - 1].txq}
RunEnd(r, a) ==
  CHOOSE e \in a .. Len(r) :
    /\ \A i \in a .. e : r[i].txq = r[a].txq
    /\ e = Len(r) \/ r[e + 1].txq # r[a].txq
NthStart(r, j) ==
  CHOOSE a \in RunStarts(r) : Cardinality({t \in RunStarts(r) : t <= a}) = j
RECURSIVE BytesFromTo(_, _, _)
BytesFromTo(r, a, e) == IF a > e THEN 0 ELSE r[a].bytes + BytesFromTo(r, a + 1, e)
RunsOf(r) ==
  [j \in 1 .. Cardinality(RunStarts(r)) |->
     LET a == NthStart(r, j)
         e == RunEnd(r, a)
     IN [txq |-> r[a].txq, done |-> e - a + 1, bytes |-> BytesFromTo(r, a, e)]]

\* What the calls made so far, and the one still owed, account to queue t.
BqlOwed == IF bql.txq = NoTxq THEN <<>>
           ELSE <<[txq |-> bql.txq, done |-> bql.done, bytes |-> bql.bytes]>>
RECURSIVE CallsSum(_, _, _)
CallsSum(cs, t, bytes) ==
  IF cs = <<>> THEN 0
  ELSE (IF Head(cs).txq = t THEN (IF bytes THEN Head(cs).bytes ELSE Head(cs).done) ELSE 0)
       + CallsSum(Tail(cs), t, bytes)
TxQueues == Devs \X (0 .. (NumTxQueues - 1))

\* C29: in one call of mtk_poll_tx the counts and the bytes handed to
\* netdev_tx_completed_queue for a transmit queue add up to the skbs and the
\* bytes of that queue the call released; one call is made per maximal run of
\* consecutive released skbs of one queue, and the last run is handed over
\* when the call ends (inside the loop it is what struct mtk_poll_state holds).
C29_QueueAccounting ==
  /\ [](/\ (bql.calls \o (IF ptx.pc = "loop" THEN BqlOwed ELSE <<>>)) = RunsOf(bql.rel)
        /\ ptx.pc = "idle" =>
             \A t \in TxQueues :
               /\ CallsSum(bql.calls, t, FALSE)
                    = Cardinality({i \in 1 .. Len(bql.rel) : bql.rel[i].txq = t})
               /\ CallsSum(bql.calls, t, TRUE)
                    = CallsSum([i \in 1 .. Len(bql.rel) |->
                                  [txq |-> bql.rel[i].txq, bytes |-> bql.rel[i].bytes]],
                               t, TRUE))
  /\ [][(ptx.pc = "loop" /\ ptx'.pc = "idle" /\ bql.txq # NoTxq) =>
          /\ Len(bql'.calls) = Len(bql.calls) + 1
          /\ bql'.calls[Len(bql'.calls)] = [txq |-> bql.txq, done |-> bql.done,
                                            bytes |-> bql.bytes]]_vars

\* A call that released three skbs, two of one queue and then one of
\* another, of different lengths, has ended with two updates.
C29_Witness ==
  /\ ptx.pc = "idle"
  /\ Len(bql.rel) = 3
  /\ bql.rel[1].txq = bql.rel[2].txq
  /\ bql.rel[2].txq # bql.rel[3].txq
  /\ bql.rel[1].bytes # bql.rel[2].bytes
  /\ Len(bql.calls) = 2
  /\ bql.calls[1].done = 2
  /\ bql.calls[1].bytes = 3

\* ========================================================= PDMA descriptor halves
\* Packets and XDP frames submitted on the PDMA ring, whose descriptors hold
\* two buffers each (txd1/PLEN0/LS0 and txd3/PLEN1/LS1).
NextHalves ==
  \/ \E skb \in ChainSkbs : tx_map_empty(skb, 0)
  \/ \E xdpf \in XdpFrames, m \in BOOLEAN :
       /\ SlotsInUse = {}
       /\ next_free = 0
       /\ ptx.pc = "idle"
       /\ xdp_submit_check(0, xdpf, m)
  \/ xdp_submit_locked(0)
  \/ pdma_hw_tx_done
  \/ PollTxBegin
  \/ poll_tx_step
  \/ poll_tx_end

SpecHalves == InitPdma /\ [][NextHalves]_vars

\* The buffers of a packet in the order they are mapped: the linear part, then
\* the pieces of the fragments.
RECURSIVE SkbBuffersFrom(_, _)
SkbBuffersFrom(frags, i) ==
  IF i > Len(frags) THEN <<>>
  ELSE [j \in 1 .. ((frags[i] + DmaMaxLen - 1) \div DmaMaxLen) |->
          IF j * DmaMaxLen <= frags[i] THEN DmaMaxLen ELSE frags[i] % DmaMaxLen]
       \o SkbBuffersFrom(frags, i + 1)
SkbBuffers(skb) == <<skb.headlen>> \o SkbBuffersFrom(skb.frags, 1)
XdpBuffers(xdpf) == <<xdpf.len>> \o xdpf.frags

\* The submission that started at slot base left buffer k (of length B[k + 1])
\* in half k mod 2 of the (k div 2)-th descriptor, nothing in the half after
\* an odd number of buffers, and the last-segment flag on the half of the
\* final buffer alone.
HalvesLaidOut(B, base) ==
  LET n == Len(B)
      slot(k) == (base + (k \div 2)) % RingSize
  IN /\ next_free' = (base + ((n + 1) \div 2)) % RingSize
     /\ \A k \in 0 .. (n - 1) :
          /\ (IF k % 2 = 0 THEN dma_pdma'[slot(k)].plen0 ELSE dma_pdma'[slot(k)].plen1)
               = B[k + 1]
          /\ (IF k % 2 = 0 THEN dma_pdma'[slot(k)].ls0 ELSE dma_pdma'[slot(k)].ls1)
               = (k = n - 1)
     /\ n % 2 = 1 => /\ dma_pdma'[slot(n - 1)].plen1 = 0
                     /\ ~dma_pdma'[slot(n - 1)].ls1

SkbHalves(skbs) ==
  \A skb \in skbs :
    (tx_map_empty(skb, 0) /\ ev'.skb = "queued") => HalvesLaidOut(SkbBuffers(skb), next_free)

XdpHalves ==
  (xs.pc = "locked" /\ xs'.pc = "idle" /\ ev'.skb = "queued")
    => HalvesLaidOut(XdpBuffers(xs.xdpf), next_free)

\* C30: on the PDMA ring the k-th buffer of a submission (head = 0) occupies
\* half k mod 2 of the (k div 2)-th descriptor taken, no half is written
\* twice within one submission, and the last-segment flag is set on the half
\* that holds the final buffer, for packets and for XDP frames.
C30_PdmaHalves == [][SkbHalves(ChainSkbs) /\ XdpHalves]_vars

\* The part that holds: packets whose fragments each fit one buffer.
UnsplitSkbHalves == [][SkbHalves({skb \in ChainSkbs : FragsWithinMaxLen(skb)})]_vars

\* ============================================================ descriptor encoders
\* mtk_tx_set_dma_desc_v1 / _v2 write the words of a QDMA descriptor from
\* struct mtk_tx_dma_desc_info.  A word, and a bus address, is the set of
\* the positions of its bits that are 1.
BitsOf(v) == {b \in 0 .. 15 : (v \div (2 ^ b)) % 2 = 1}
RECURSIVE ValOf(_)
ValOf(S) == IF S = {} THEN 0
            ELSE LET b == CHOOSE x \in S : TRUE IN (2 ^ b) + ValOf(S \ {b})
Shl(S, k) == {b + k : b \in S}
Shr(S, k) == {b - k : b \in {x \in S : x >= k}}
GENMASK(h, l) == l .. h
U32(S) == S \cap GENMASK(31, 0)

\* soc->tx.dma_max_len and soc->tx.dma_len_offset of the generations
\* (MTK_TX_DMA_BUF_LEN, MTK_TX_DMA_BUF_LEN_V2)
TxDmaMaxLen(gen) == IF gen = 1 THEN 16383 ELSE 65535
TxDmaLenOffset(gen) == IF gen = 1 THEN 16 ELSE 8

\* The bit fields of the descriptor words
TX_DMA_PLEN0(gen, x) == Shl(BitsOf(x) \cap BitsOf(TxDmaMaxLen(gen)), TxDmaLenOffset(gen))
TX_DMA_LS0 == {30}
TX_DMA_SWC == {14}
TX_DMA_PQID == GENMASK(3, 0)
TX_DMA_ADDR64_MASK == GENMASK(3, 0)
TX_DMA_PREP_ADDR64(addr) == Shr(addr, 32) \cap TX_DMA_ADDR64_MASK
TX_DMA_FPORT_SHIFT == 25
TX_DMA_TSO == {28}
TX_DMA_CHKSUM == {29, 30, 31}
TX_DMA_INS_VLAN == {16}
TX_DMA_FPORT_SHIFT_V2 == 8
TX_DMA_SWC_V2 == {30}
QID_BITS_V2(x) == Shl(BitsOf(x) \cap GENMASK(5, 0), 16)
TX_DMA_TSO_V2 == {31}
TX_DMA_CHKSUM_V2 == {28, 29, 30}
TX_DMA_SPTAG_V3 == {27}
TX_DMA_INS_VLAN_V2 == {16}
\* PSE_GDM1_PORT, PSE_GDM2_PORT, PSE_GDM3_PORT of MTK_GMAC1_ID .. MTK_GMAC3_ID
PsePort(mac) == IF mac = 0 THEN 1 ELSE IF mac = 1 THEN 2 ELSE 15

mtk_tx_set_dma_desc_v1(mac, info) ==
  [txd1 |-> U32(info.addr),
   txd3 |-> TX_DMA_SWC \cup TX_DMA_PLEN0(1, info.size)
              \cup (BitsOf(info.qid) \cap TX_DMA_PQID)
              \cup (IF info.last THEN TX_DMA_LS0 ELSE {}),
   txd4 |-> U32(Shl(BitsOf(mac + 1), TX_DMA_FPORT_SHIFT)
              \cup (IF info.first /\ info.gso THEN TX_DMA_TSO ELSE {})
              \cup (IF info.first /\ info.csum THEN TX_DMA_CHKSUM ELSE {})
              \cup (IF info.first /\ info.vlan
                    THEN TX_DMA_INS_VLAN \cup BitsOf(info.vlan_tci) ELSE {})),
   txd5 |-> {}, txd6 |-> {}]

\* mutant: the upper address bits are left out of txd3
mtk_tx_set_dma_desc_v2_drops_addr64(gen, caps36, mac, dsa, info) ==
  [txd1 |-> U32(info.addr),
   txd3 |-> TX_DMA_PLEN0(gen, info.size)
              \cup (IF info.last THEN TX_DMA_LS0 ELSE {}),
   txd4 |-> Shl(BitsOf(PsePort(mac)), TX_DMA_FPORT_SHIFT_V2)
              \cup TX_DMA_SWC_V2 \cup QID_BITS_V2(info.qid),
   txd5 |-> (IF info.first /\ info.gso THEN TX_DMA_TSO_V2 ELSE {})
              \cup (IF info.first /\ info.csum THEN TX_DMA_CHKSUM_V2 ELSE {})
              \cup (IF info.first /\ gen >= 3 /\ dsa THEN TX_DMA_SPTAG_V3 ELSE {}),
   txd6 |-> IF info.first /\ info.vlan
            THEN TX_DMA_INS_VLAN_V2 \cup BitsOf(info.vlan_tci) ELSE {}]

mtk_tx_set_dma_desc_v2(gen, caps36, mac, dsa, info) ==
  [txd1 |-> U32(info.addr),
   txd3 |-> TX_DMA_PLEN0(gen, info.size)
              \cup (IF info.last THEN TX_DMA_LS0 ELSE {})
              \cup (IF caps36 THEN TX_DMA_PREP_ADDR64(info.addr) ELSE {}),
   txd4 |-> Shl(BitsOf(PsePort(mac)), TX_DMA_FPORT_SHIFT_V2)
              \cup TX_DMA_SWC_V2 \cup QID_BITS_V2(info.qid),
   txd5 |-> (IF info.first /\ info.gso THEN TX_DMA_TSO_V2 ELSE {})
              \cup (IF info.first /\ info.csum THEN TX_DMA_CHKSUM_V2 ELSE {})
              \cup (IF info.first /\ gen >= 3 /\ dsa THEN TX_DMA_SPTAG_V3 ELSE {}),
   txd6 |-> IF info.first /\ info.vlan
            THEN TX_DMA_INS_VLAN_V2 \cup BitsOf(info.vlan_tci) ELSE {}]

\* mtk_tx_set_dma_desc with the descriptor version of the SoC
tx_set_dma_desc_words(gen, caps36, mac, dsa, info) ==
  IF gen >= 2 THEN mtk_tx_set_dma_desc_v2(gen, caps36, mac, dsa, info)
  ELSE mtk_tx_set_dma_desc_v1(mac, info)

\* What the device of generation gen reads out of the words.
tx_desc_decode(gen, caps36, d) ==
  [addr |-> d.txd1 \cup (IF caps36 THEN Shl(d.txd3 \cap TX_DMA_ADDR64_MASK, 32) ELSE {}),
   size |-> ValOf(Shr(d.txd3, TxDmaLenOffset(gen)) \cap BitsOf(TxDmaMaxLen(gen))),
   last |-> TX_DMA_LS0 \subseteq d.txd3,
   qid |-> IF gen = 1 THEN ValOf(d.txd3 \cap TX_DMA_PQID)
           ELSE ValOf(Shr(d.txd4, 16) \cap GENMASK(5, 0)),
   mac |-> IF gen = 1
           THEN ValOf(Shr(d.txd4, TX_DMA_FPORT_SHIFT) \cap GENMASK(2, 0)) - 1
           ELSE LET port == ValOf(Shr(d.txd4, TX_DMA_FPORT_SHIFT_V2) \cap GENMASK(3, 0))
                IN IF port = 1 THEN 0 ELSE IF port = 2 THEN 1
                   ELSE IF port = 15 THEN 2 ELSE -1,
   gso |-> IF gen = 1 THEN TX_DMA_TSO \subseteq d.txd4 ELSE TX_DMA_TSO_V2 \subseteq d.txd5,
   csum |-> IF gen = 1 THEN TX_DMA_CHKSUM \subseteq d.txd4
            ELSE TX_DMA_CHKSUM_V2 \subseteq d.txd5,
   vlan |-> IF gen = 1 THEN TX_DMA_INS_VLAN \subseteq d.txd4
            ELSE TX_DMA_INS_VLAN_V2 \subseteq d.txd6,
   vlan_tci |-> IF gen = 1 THEN ValOf(d.txd4 \cap GENMASK(15, 0))
                ELSE ValOf(d.txd6 \cap GENMASK(15, 0))]

\* The fields of an info the descriptor carries.
TxFieldsOf(mac, info) ==
  [addr |-> info.addr, size |-> info.size, last |-> info.last, qid |-> info.qid,
   mac |-> mac, gso |-> info.gso, csum |-> info.csum, vlan |-> info.vlan,
   vlan_tci |-> info.vlan_tci]

\* Bus addresses: below 4 GiB, and with MTK_36BIT_DMA up to 36 bits.
AddrLow == {{0}, {4, 12, 31}, GENMASK(31, 0)}
AddrHigh == {{}, {32}, {33, 35}, GENMASK(35, 32)}
CodecAddrs(caps36) ==
  IF caps36 THEN {lo \cup hi : lo \in AddrLow, hi \in AddrHigh} ELSE AddrLow

\* The offload fields are filled in for the first descriptor of a packet
\* only; txd_info of every other descriptor is cleared first.
CodecOffloads ==
  {o \in [first : BOOLEAN, gso : BOOLEAN, csum : BOOLEAN, vlan : BOOLEAN,
          vlan_tci : {0, 1, 65535}] :
     /\ ~o.first => (~o.gso /\ ~o.csum /\ ~o.vlan)
     /\ ~o.vlan <=> (o.vlan_tci = 0)}

CodecInfos(gen, caps36) ==
  {[addr |-> a, size |-> sz, last |-> l, qid |-> q, first |-> o.first, gso |-> o.gso,
    csum |-> o.csum, vlan |-> o.vlan, vlan_tci |-> o.vlan_tci] :
     a \in CodecAddrs(caps36), sz \in {1, 1500, TxDmaMaxLen(gen)}, l \in BOOLEAN,
     q \in {0, 15}, o \in CodecOffloads}

\* A descriptor is about to be written for device mac of a SoC of generation gen.
codec_prepare(gen, caps36, mac, dsa, info) ==
  /\ codec.pc = "idle"
  /\ codec' = [pc |-> "info", gen |-> gen, caps36 |-> caps36, mac |-> mac, dsa |-> dsa,
               info |-> info]
  /\ UNCHANGED <<txVars, rxVars, resetVars, napiVars, auxButCodec>>

codec_encode ==
  /\ codec.pc = "info"
  /\ codec' = [codec EXCEPT !.pc = "desc",
                 !.info = TxFieldsOf(codec.mac, codec.info)] @@
               [desc |-> tx_set_dma_desc_words(codec.gen, codec.caps36, codec.mac,
                                               codec.dsa, codec.info)]
  /\ UNCHANGED <<txVars, rxVars, resetVars, napiVars, auxButCodec>>

NextCodec ==
  \/ /\ codec.pc = "idle"
     /\ \E gen \in 1 .. 3 :
          \E caps36 \in (IF gen = 1 THEN {FALSE} ELSE BOOLEAN),
             mac \in (IF gen = 3 THEN 0 .. 2 ELSE 0 .. 1),
             dsa \in (IF gen = 3 THEN BOOLEAN ELSE {FALSE}) :
            \E info \in CodecInfos(gen, caps36) :
              codec_prepare(gen, caps36, mac, dsa, info)
  \/ codec_encode

SpecCodec == Init /\ [][NextCodec]_vars

\* C31: for the three generations, with and without 36-bit addressing, the
\* fields read back from the encoded descriptor are the fields that were
\* encoded (address, length, last flag, queue, forward port, checksum and
\* segmentation flags, VLAN tag); the upper address bits packed into the
\* length word leave the length as it was.
C31_DescriptorRoundTrip ==
  codec.pc = "desc" =>
    /\ tx_desc_decode(codec.gen, codec.caps36, codec.desc) = codec.info
    /\ tx_desc_decode(codec.gen, codec.caps36, codec.desc).size
         = tx_desc_decode(codec.gen, FALSE, codec.desc).size

\* A first descriptor of generation 3 with an address above 4 GiB, the
\* longest length and every offload has been encoded.
C31_Witness ==
  /\ codec.pc = "desc"
  /\ codec.gen = 3
  /\ codec.caps36
  /\ codec.info.addr = GENMASK(35, 0)
  /\ codec.info.size = 65535
  /\ codec.info.gso /\ codec.info.csum /\ codec.info.vlan /\ codec.info.last
  /\ codec.desc.txd3 \cap TX_DMA_ADDR64_MASK = GENMASK(3, 0)

C33_UnwindReturnsError ==
  ev.op = "xdp_submit" =>
    /\ ev.ret = "OK" => (ev.skb = "queued" /\ ~ev.fail)
    /\ ev.fail => ev.ret # "OK"

\* ====================================================== unwind of a failed submission
\* A frame of two fragments: head and fragments take three slots on QDMA.
TwoFragFrame == [len |-> 1, frags |-> <<1, 1>>, page |-> -1]

\* The ring shared by linear packets and frames of two fragments, whose unlocked
\* check and locked walk are separate steps, with the device and reclaim.
NextUnwind ==
  \/ mtk_start_xmit(0, LinearSkb, 0, TRUE, FALSE)
  \/ xdp_submit_check(0, TwoFragFrame, TRUE)
  \/ \E f \in {0, 2} : xdp_submit_locked(f)
  \/ qdma_hw_tx_done
  \/ poll_tx_begin(MaxBudget)
  \/ poll_tx_step
  \/ poll_tx_end

SpecUnwind == Init /\ [][NextUnwind]_vars

\* C34: the unwind of a failed submission (err_dma of mtk_tx_map, unmap of
\* mtk_xdp_submit_frame) visits only slots that submission wrote, on both
\* backends: no slot of a packet still in flight is unmapped, freed or
\* rewritten, and the unwind does not walk further than the submission did.
C34_UnwindOwnSlots ==
  [][ev'.fail =>
       /\ ~ghost'.freed_inflight
       /\ \A s \in SlotsInUse :
            /\ tx_buf'[s] = tx_buf[s]
            /\ txd'[s] = txd[s]
            /\ dma_pdma'[s] = dma_pdma[s]]_vars

\* ====================================================== backpressure
\* mtk_start_xmit up to its test of free_count: the ring-full test before the
\* packet is mapped, or the packet mapped and queued and the test against
\* ring->thresh after it.  netif_tx_stop_all_queues is the next step of the
\* same call; mtk_poll_tx does not take page_lock and can run in between.
mtk_start_xmit_test(d, skb) ==
  LET tx_num == mtk_cal_txd_req(skb)
      st == mtk_tx_map(d, skb, 0)
      e == [op |-> "start_xmit", ret |-> "OK", taken |-> 0, req |-> tx_num,
            fail |-> FALSE, unwound |-> FALSE, skb |-> "freed"]
      stop == [pc |-> "stop", dev |-> d]
  IN /\ qdma
     /\ xm.pc = "idle"
     /\ ~queue_stopped[d]
     /\ ~resetting
     /\ IF free_count <= tx_num
        THEN /\ xm' = stop
             /\ ev' = [e EXCEPT !.ret = "BUSY", !.skb = "kept"]
             /\ ghost' = NoGhost
             /\ UNCHANGED <<txd, dma_pdma, tx_buf, live, next_free, free_count, ctx_ptr>>
        ELSE /\ StoreRing(st)
             /\ next_free' = NextSlot(st.cur)
             /\ free_count' = free_count - st.n
             /\ ctx_ptr' = NextSlot(st.cur)
             /\ xm' = IF free_count' <= Thresh THEN stop ELSE NoXm
             /\ ev' = [e EXCEPT !.taken = st.n, !.skb = "queued"]
     /\ UNCHANGED <<qdma, last_free, last_free_ptr, cpu_idx, drx_ptr, tx_ctx_idx0,
                    tx_dtx_idx0, queue_stopped, ptx, xs, lockVars, rxVars, resetVars,
                    napiVars, auxButXm>>

\* netif_tx_stop_all_queues(dev) of the call whose test was true.
mtk_start_xmit_stop ==
  /\ xm.pc = "stop"
  /\ queue_stopped' = [queue_stopped EXCEPT ![xm.dev] = TRUE]
  /\ xm' = NoXm
  /\ UNCHANGED <<qdma, txd, dma_pdma, tx_buf, next_free, last_free, last_free_ptr,
                 cpu_idx, free_count, ctx_ptr, drx_ptr, tx_ctx_idx0, tx_dtx_idx0, ptx, xs,
                 lockVars, live, ghost, ev, rxVars, resetVars, napiVars, auxButXm>>

NapiTxBegin == \E budget \in 1 .. MaxBudget : napi_tx_begin(budget)

\* Packets of one device on the QDMA ring, the device raising the transmit
\* interrupt for every descriptor it sends, and the poll task it schedules.
NextWake ==
  \/ mtk_start_xmit_test(0, LinearSkb)
  \/ mtk_start_xmit_stop
  \/ qdma_hw_tx_irq
  \/ mtk_handle_irq_tx
  \/ NapiTxBegin
  \/ poll_tx_step
  \/ napi_tx_end

InitWake ==
  /\ TxInitT(TRUE, "tx")
  /\ RxInit(FALSE, FALSE)
  /\ ResetInit(FALSE)

\* The device sends every descriptor it was handed, a pending enabled interrupt
\* is delivered, the softirq runs a scheduled poll task to its end, and a CPU
\* inside mtk_start_xmit goes on.  Nothing obliges the stack to submit.
WakeFair ==
  /\ WF_vars(mtk_start_xmit_stop)
  /\ WF_vars(qdma_hw_tx_irq)
  /\ WF_vars(mtk_handle_irq_tx)
  /\ WF_vars(NapiTxBegin)
  /\ WF_vars(poll_tx_step)
  /\ WF_vars(napi_tx_end)

SpecWake == InitWake /\ [][NextWake]_vars /\ WakeFair

\* C35: backpressure is always lifted: under any interleaving of mtk_start_xmit
\* and mtk_poll_tx no queue stays stopped forever once every submitted
\* descriptor has completed and been reclaimed.
C35_BackpressureLifted == []<>(SlotsInUse # {} \/ ~mtk_queue_stopped)

\* ====================================================== the count of reclaim
\* Head slots released so far by the running pass of mtk_poll_tx: the loop
\* takes one off its budget for every slot whose data is not the dummy of a
\* chained segment, whether it holds a packet or a frame.
HeadsReleased == napi_tx.budget - ptx.budget

\* C36: the count mtk_poll_tx returns (state.total) is the number of packets
\* and frames whose head slot the pass released, and is at most the budget.
C36_CountIsHeadsReleased ==
  napi_tx.pc = "poll" =>
    /\ ptx.total = HeadsReleased
    /\ ptx.total <= napi_tx.budget

\* ====================================================== the reference count of the rings
\* The devices that are open (netif_running).
OpenDevs == {d \in Devs : netif_up[d]}

\* C37: the shared rings are brought up once and torn down once: after any
\* sequence of mtk_open and mtk_stop, the cycle of mtk_pending_work with failing
\* restarts included, dma_refcnt is the number of devices open, the rings are
\* allocated exactly when dma_refcnt > 0, and dma_refcnt never goes below zero.
C37_RefcntCountsOpenDevices ==
  /\ dma_refcnt >= 0
  /\ dma_up <=> dma_refcnt > 0
  /\ pw.pc = "idle" => dma_refcnt = Cardinality(OpenDevs)

\* ====================================================== termination of the reset
\* for (i = 0; i < 10; i++) of mtk_stop_dma
StopDmaPolls == 10

\* mtk_stop_dma leaves its loop only on a read that shows the engine idle (the
\* loop counter starts again when it runs out).
mtk_stop_dma_poll_no_limit(cur, busy) ==
  IF busy THEN [cur EXCEPT !.i = (@ + 1) % StopDmaPolls, !.gave_up = TRUE]
  ELSE IF cur.left > 0
  THEN [cur EXCEPT !.i = 0, !.left = @ - 1]
  ELSE [cur EXCEPT !.pc = "done", !.i = 0]

\* One pass of the wait loop of mtk_stop_dma on the call state cur: glo_cfg is
\* read; busy engines are slept on and polled again until the loop counter
\* runs out; the next engine follows (mtk_stop calls mtk_stop_dma for QDMA,
\* then for PDMA) or mtk_stop_dma has returned for the last time.
mtk_stop_dma_poll(cur, busy) ==
  LET polls == cur.i + 1
      g == cur.gave_up \/ busy
  IN IF busy /\ polls < StopDmaPolls
     THEN [cur EXCEPT !.i = polls]
     ELSE IF cur.left > 0
     THEN [cur EXCEPT !.i = 0, !.left = @ - 1, !.gave_up = g]
     ELSE [cur EXCEPT !.pc = "done", !.i = 0, !.gave_up = g]

\* mtk_stop of device d shuts the engines down: d holds the last reference.
stops_dma(d) == netif_up[d] /\ refcount_dec_and_test(dma_refcnt).last

\* A poll of mtk_stop_dma inside the mtk_stop of the stop loop.  The polls
\* change nothing but the wait itself, and are taken ahead of the rest of
\* mtk_stop.
stop_dma_poll(busy) ==
  LET cur == IF sd.pc = "idle"
             THEN [pc |-> "wait", i |-> 0, left |-> IF qdma THEN 1 ELSE 0,
                   gave_up |-> FALSE]
             ELSE sd
  IN /\ pw.pc = "stop"
     /\ stops_dma(pw.i)
     /\ sd.pc # "done"
     /\ sd' = mtk_stop_dma_poll(cur, busy)
     /\ UNCHANGED <<txVars, rxVars, resetVars, napiVars, auxButSd>>

\* One pass of the stop loop once the waits of its mtk_stop are over.
pw_stop_step_waited ==
  /\ stops_dma(pw.i) => sd.pc = "done"
  /\ pw_stop_step_ring
  /\ sd' = [NoSd EXCEPT !.gave_up = sd.gave_up]
  /\ UNCHANGED auxButSd

StopDmaPoll == \E busy \in BOOLEAN : stop_dma_poll(busy)

PwRestartStep == \E out \in OpenOuts : pw_restart_step(out)

\* The orchestrator queued by the transmit watchdog, with engines that are idle
\* or busy at every read and restarts that succeed or fail.
NextTeardown ==
  \/ \E d \in Devs : mtk_tx_timeout(d, TRUE)
  \/ pw_begin
  \/ StopDmaPoll
  \/ pw_stop_step_waited
  \/ pw_hw_init
  \/ PwRestartStep
  \/ pw_end

\* The work function runs on: each of its steps is taken once it is the next
\* one.  Nothing is assumed of the engines or of the restarts.
TeardownFair ==
  /\ WF_vars(StopDmaPoll)
  /\ WF_vars(pw_stop_step_waited)
  /\ WF_vars(pw_hw_init)
  /\ WF_vars(PwRestartStep)
  /\ WF_vars(pw_end)

SpecTeardown == Init /\ [][NextTeardown]_vars /\ TeardownFair

\* C38: once mtk_pending_work has started it terminates with MTK_RESETTING
\* cleared: the wait of mtk_stop_dma gives up after StopDmaPolls polls whatever
\* the engine reports, and failing restarts do not keep the flag set.
C38_ResetTerminates ==
  /\ [](sd.i < StopDmaPolls)
  /\ [](pw.pc = "idle" => ~resetting)
  /\ (pw.pc # "idle") ~> (pw.pc = "idle" /\ ~resetting)

\* The work has ended with the flag clear after an engine stayed busy through
\* all its polls and a restart failed (its device was closed).
C38_Witness ==
  /\ pw.pc = "idle"
  /\ ~resetting
  /\ sd.gave_up
  /\ OpenDevs # Devs

\* ====================================================== receive during a reset
\* The receive ring polled while the transmit watchdog queues the reset and
\* mtk_pending_work sets MTK_RESETTING: the flag can rise between two passes of
\* one mtk_poll_rx call, which ends before the stop loop's napi_disable returns.
\* The ring is the one without page pool (no program can be attached).
InitRxReset ==
  /\ TxInit(TRUE)
  /\ \E caps_36bit \in BOOLEAN : RxInit(FALSE, caps_36bit)
  /\ ResetInit(FALSE)

NextRxReset ==
  \/ rx_poll_begin(RxBudget)
  \/ RxPollPass
  \/ rx_poll_release
  \/ rx_poll_end
  \/ rx_hw_receive
  \/ \E b \in Bufs : rx_buf_release(b)
  \/ mtk_tx_timeout(0, TRUE)
  \/ pw_begin

SpecRxReset == InitRxReset /\ [][NextRxReset]_vars

\* C39: while MTK_RESETTING is set, a completion mtk_poll_rx sees is recycled in
\* place: the slot keeps its buffer and its bus address, the descriptor goes
\* back to the device, nothing is delivered, the program is not run, no drop
\* is counted, and the completion counts against the budget.
C39_ResettingRecyclesInPlace ==
  [][LET idx == NextRx(calc_idx)
     IN /\ resetting /\ rp.pc = "loop" /\ rp'.pc = "release" =>
             /\ rev'.out \in {"resetting", "bad_mac"}
             /\ rx_data' = rx_data
             /\ rxd' = rxd
             /\ buf_owner' = buf_owner
             /\ rx_mapped' = rx_mapped
             /\ ~rev'.prog
             /\ ~rev'.dropped
             /\ rev'.stats = rev.stats
        /\ resetting /\ rp.pc = "release" /\ rp'.pc = "loop" /\ rev.out = "resetting" =>
             /\ rx_data'[idx] = rx_data[idx]
             /\ rxd'[idx].lo = rxd[idx].lo
             /\ rxd'[idx].hi = rxd[idx].hi
             /\ ~rxd'[idx].done
             /\ BufAt(rxd'[idx].lo, rxd'[idx].hi) = rx_data'[idx]
             /\ rp'.done = rp.done + 1]_vars

====
